---------------------------- MODULE Spec2Model ----------------------------
(***************************************************************************)
(* Verification model of the metadata-manager catalog.                     *)
(*                                                                         *)
(*  Part I   ObjectId (mock/object_id.cpp): the object-id generator that   *)
(*           keeps one counter per metadata table in an INI file.          *)
(*  Part II  TablesProvider (provider/tables_provider.cpp): the            *)
(*           orchestration of table and column DAO calls inside a          *)
(*           start_transaction / commit / rollback envelope.               *)
(*  Part III IndexDaoJson (dao/json/index_dao_json.cpp) on a document      *)
(*           session.                                                      *)
(*  Part IV  Metadata (mock/metadata.cpp): load, add and save of a JSON    *)
(*           metadata file.                                                *)
(*  Part V   StatisticsDAO (dao/postgresql/statistics_dao.cpp): the        *)
(*           writes of the column statistics table.                        *)
(*  Part VI  Index (indexes.cpp): conversion to and from a property tree.  *)
(*                                                                         *)
(* Each part has its own specifications; the variables of the other parts  *)
(* keep their initial value under them.                                    *)
(***************************************************************************)
EXTENDS Integers, Sequences, FiniteSets, TLC

VARIABLES
    oid_file,   \* the counter file ObjectId::TABLE_NAME: [exists, pt]
    gen,        \* per process: position and locals of ObjectId::generate
    last,       \* the most recently completed generate call (observation)
    issued,     \* per name: the valid ids returned so far, in order; each with
                \* the epoch of the call and whether the file had changed
                \* between the call's read and its write (stale)
    epoch,      \* number of restarts so far
    db,         \* the committed metadata repository: [tables, columns]
    work,       \* the repository as the open transaction sees it
    txn,        \* state of the session's transaction
    table_seq,  \* the last table id the tables DAO handed out
    daos,       \* the DAO instances TablesProvider::init has obtained
    added,      \* per table id: the object a committed add_table_metadata
                \* stored under it (observation)
    call,       \* the TablesProvider operation in progress or last completed
    doc,        \* the backing document of the index metadata: [exists, indexes]
    sess,       \* per document session: the tree in memory, and what was
                \* inserted into it and the document it was read from
                \* (observation)
    index_oid,  \* the persisted counter of the index id generator
    dcall,      \* the most recent call of IndexDaoJson or of a session
    file,       \* the JSON file of a Metadata object: what a reader finds
    metadata_,  \* the tree a Metadata object holds in memory
    mcall,      \* the most recent call of Metadata::load, add or save
    column_statistics,  \* the rows of the column statistics table
    scall,      \* the most recent call of the StatisticsDAO
    index,      \* the Index record under conversion
    index_pt,   \* the property tree under conversion
    decoded     \* the Index record convert_from_ptree has filled

oidVars == <<oid_file, gen, last, issued, epoch>>

provVars == <<db, work, txn, table_seq, daos, added, call>>

docVars == <<doc, sess, index_oid, dcall>>

metaVars == <<file, metadata_, mcall>>

statVars == <<column_statistics, scall>>

codecVars == <<index, index_pt, decoded>>

extVars == <<metaVars, statVars, codecVars>>

vars == <<oidVars, provVars, docVars, extVars>>

(***************************************************************************)
(* Bounds of the model.                                                    *)
(***************************************************************************)
\* Successful issuances per name after which no further call is started.
MaxIssued == 2
\* Restarts (loss of all in-memory state) explored.
MaxRestarts == 1

\* Table ids after which no further add_table_metadata call is started.
MaxTableId == 2
\* Longest column list of a table handed to add_table_metadata.
MaxColumns == 3

\* The processes that may call ObjectId::generate.
Procs == {"p1", "p2"}

\* Keys of the counter file: the metadata-table names ids are generated for.
OidNames == {"tables", "columns"}

(***************************************************************************)
(* Part I.  ObjectId                                                       *)
(***************************************************************************)

\* object_id.cpp:16  static constexpr uint64_t INVALID_OID = 0;
INVALID_OID == 0

\* object_id.cpp:59  pt.put(table_name, 0): the counter of an unseen name.
InitialOid == 0

\* A property tree of the counter file is an ordered list of <<key, value>>
\* entries (boost ptree keeps insertion order; write_ini emits it in order).
PtHas(pt, k) == \E i \in 1..Len(pt) : pt[i][1] = k

\* ptree::get_optional<ObjectIdType>(k): the first entry with key k, or none.
PtGet(pt, k) ==
    LET i == CHOOSE j \in 1..Len(pt) :
                 pt[j][1] = k /\ \A l \in 1..(j-1) : pt[l][1] # k
    IN pt[i][2]

\* ptree::put(k, v): replaces the value of the first entry with key k,
\* appends a new entry when there is none.
PtPut(pt, k, v) ==
    IF PtHas(pt, k)
    THEN LET i == CHOOSE j \in 1..Len(pt) :
                      pt[j][1] = k /\ \A l \in 1..(j-1) : pt[l][1] # k
         IN [pt EXCEPT ![i] = <<k, v>>]
    ELSE Append(pt, <<k, v>>)

\* The persisted counter of a name: 0 stands for "no entry".
Persisted(k) ==
    IF oid_file.exists /\ PtHas(oid_file.pt, k) THEN PtGet(oid_file.pt, k) ELSE 0

\* object_id.cpp:56-61  the counter read for table_name, created as 0 when
\* the file has no entry for it.
ReadOid(pt, name) == IF PtHas(pt, name) THEN PtGet(pt, name) ELSE InitialOid

\* object_id.cpp:64  ++oid.get()
NextOid(oid) == oid + 1

\* object_id.cpp:56-64  the tree after get_optional / put(0) / put(++oid).
UpdatedTree(pt, name) ==
    LET pt0 == IF PtHas(pt, name) THEN pt ELSE PtPut(pt, name, InitialOid)
    IN PtPut(pt0, name, NextOid(ReadOid(pt, name)))

Idle == [pc |-> "idle", name |-> "", pt |-> <<>>, oid |-> 0,
         pre |-> [exists |-> FALSE, pt |-> <<>>]]

NoCall == [proc |-> "", name |-> "", id |-> 0, kind |-> "none",
           pre |-> [exists |-> FALSE, pt |-> <<>>]]

\* With external mutual exclusion (excl) a call starts only when no other
\* process is inside generate.
MayStart(p, excl) ==
    /\ gen[p].pc = "idle"
    /\ excl => \A q \in Procs : gen[q].pc = "idle"

\* The exploration stops starting calls for a name after MaxIssued ids were
\* issued for it (serialised callers), or after MaxIssued ids were issued in
\* all (racing callers).
WithinBound(name, excl) ==
    IF excl THEN Len(issued[name]) < MaxIssued
    ELSE Len(issued["tables"]) + Len(issued["columns"]) < MaxIssued

\* object_id.cpp:21-36  ObjectId::init(): creates an empty counter file when
\* none can be opened; a failing write_ini is reported as UNKNOWN and leaves
\* no file.
ObjectId_init(p, excl) ==
    /\ MayStart(p, excl)
    /\ ~oid_file.exists
    /\ \E ok \in BOOLEAN :
          oid_file' = IF ok THEN [exists |-> TRUE, pt |-> <<>>] ELSE oid_file
    /\ UNCHANGED <<gen, last, issued, epoch, provVars, docVars, extVars>>

\* object_id.cpp:46-54  read_ini throws (file missing, unreadable or
\* malformed): generate returns INVALID_OID without touching the file.
generate_read_fail(p, name, excl) ==
    /\ MayStart(p, excl)
    /\ WithinBound(name, excl)
    /\ last' = [proc |-> p, name |-> name, id |-> INVALID_OID,
                kind |-> "read_error", pre |-> oid_file]
    /\ UNCHANGED <<oid_file, gen, issued, epoch, provVars, docVars, extVars>>

\* object_id.cpp:44-64  read_ini succeeds: the process now holds its own
\* copy of the tree with the counter of table_name incremented.
generate_read(p, name, excl) ==
    /\ MayStart(p, excl)
    /\ WithinBound(name, excl)
    /\ oid_file.exists
    /\ gen' = [gen EXCEPT ![p] =
                 [pc |-> "write", name |-> name,
                  pt |-> UpdatedTree(oid_file.pt, name),
                  oid |-> NextOid(ReadOid(oid_file.pt, name)),
                  pre |-> oid_file]]
    /\ UNCHANGED <<oid_file, last, issued, epoch, provVars, docVars, extVars>>

\* object_id.cpp:67  write_ini(ObjectId::TABLE_NAME, pt): the tree written is
\* the local copy made at read time.
WrittenTree(p) == gen[p].pt

\* Variant: the id is taken from the file as it is at write time.
ReturnedOidFresh(p) == NextOid(ReadOid(oid_file.pt, gen[p].name))

\* object_id.cpp:73  return oid.get()
ReturnedOid(p) == gen[p].oid

\* object_id.cpp:66-73  write_ini succeeds: the file holds the local tree and
\* the incremented counter is returned.
generate_write(p) ==
    /\ gen[p].pc = "write"
    /\ oid_file' = [exists |-> TRUE, pt |-> WrittenTree(p)]
    /\ last' = [proc |-> p, name |-> gen[p].name, id |-> ReturnedOid(p),
                kind |-> "ok", pre |-> gen[p].pre]
    /\ issued' = [issued EXCEPT ![gen[p].name] =
                     Append(@, [id |-> ReturnedOid(p), epoch |-> epoch,
                                stale |-> oid_file # gen[p].pre])]
    /\ gen' = [gen EXCEPT ![p] = Idle]
    /\ UNCHANGED <<epoch, provVars, docVars, extVars>>

\* What a failing write_ini can leave behind.  write_ini(filename, pt) opens
\* the file with std::ofstream, which truncates it, and throws either because
\* the file could not be opened (the file is as before) or because the stream
\* failed while the entries were written (the file holds a proper prefix of
\* the entries, possibly none).
FailedWriteFiles(p) ==
    {oid_file} \cup
    {[exists |-> TRUE, pt |-> SubSeq(WrittenTree(p), 1, n)] :
        n \in 0..(Len(WrittenTree(p)) - 1)}

\* object_id.cpp:66-71  write_ini throws: generate returns INVALID_OID.
generate_write_fail(p) ==
    /\ gen[p].pc = "write"
    /\ \E f \in FailedWriteFiles(p) : oid_file' = f
    /\ last' = [proc |-> p, name |-> gen[p].name, id |-> INVALID_OID,
                kind |-> "write_error", pre |-> gen[p].pre]
    /\ gen' = [gen EXCEPT ![p] = Idle]
    /\ UNCHANGED <<issued, epoch, provVars, docVars, extVars>>

\* A restart: every process loses its in-memory state (a call in progress is
\* abandoned), the counter file is kept.
Restart ==
    /\ epoch < MaxRestarts
    /\ epoch' = epoch + 1
    /\ gen' = [p \in Procs |-> Idle]
    /\ UNCHANGED <<oid_file, last, issued, provVars, docVars, extVars>>

OidInit ==
    /\ oid_file = [exists |-> FALSE, pt |-> <<>>]
    /\ gen = [p \in Procs |-> Idle]
    /\ last = NoCall
    /\ issued = [n \in OidNames |-> <<>>]
    /\ epoch = 0

(***************************************************************************)
(* Part II.  TablesProvider                                                *)
(*                                                                         *)
(* The provider code is modelled from tables_provider.cpp.  The session    *)
(* manager and the table / column / data-type DAOs it calls are not part   *)
(* of the sources at hand; they are modelled from the specification        *)
(* (sections 4.4 and 4.5): a DAO call either succeeds or reports an error  *)
(* code, an insert under a name already present always fails, uncommitted  *)
(* changes live in the transaction's working copy and reach the repository *)
(* only by a successful commit.                                            *)
(***************************************************************************)

\* An optional value of a property tree: <<>> when the key is absent,
\* <<v>> when it is present (boost::optional).
None == <<>>
Some(v) == <<v>>
Has(o) == o # <<>>
Val(o) == o[1]

TableNames == {"t1", "t2"}

\* Error codes a DAO call can report, and those a session call can report.
DaoErrors == {"INVALID_PARAMETER", "INTERNAL_ERROR"}
SessionErrors == {"DATABASE_ACCESS_FAILURE"}

\* Ids of the data types held by the data-type repository.
DataTypeIds == {1, 2}

\* DataTypesProvider::get_datatype_metadata(DataTypes::ID, id, object)
get_datatype_metadata(id) == IF id \in DataTypeIds THEN "OK" ELSE "ID_NOT_FOUND"

\* The k-th column of a well-formed table.
ValidColumn(k) ==
    [name |-> Some("c" \o ToString(k)), ordinal_position |-> Some(k),
     data_type_id |-> Some(1), nullable |-> Some("NO")]

\* Columns that break exactly one of the rules fill_parameters checks.
BadColumns ==
    { [ValidColumn(1) EXCEPT !.name = None],
      [ValidColumn(1) EXCEPT !.name = Some("")],
      [ValidColumn(1) EXCEPT !.ordinal_position = None],
      [ValidColumn(1) EXCEPT !.ordinal_position = Some(0)],
      [ValidColumn(1) EXCEPT !.data_type_id = None],
      [ValidColumn(1) EXCEPT !.data_type_id = Some(-1)],
      [ValidColumn(1) EXCEPT !.data_type_id = Some(9)],
      [ValidColumn(1) EXCEPT !.nullable = None],
      [ValidColumn(1) EXCEPT !.nullable = Some("")] }

ValidList(n) == [k \in 1..n |-> ValidColumn(k)]

\* The full-length list with one column replaced by a bad one.
BadLists ==
    UNION { {[ValidList(MaxColumns) EXCEPT ![i] = b] : b \in BadColumns}
            : i \in 1..MaxColumns }

\* The table objects handed to add_table_metadata: every well-formed table
\* of up to MaxColumns columns, tables without a name or with an empty one,
\* a tree without a "columns" node (columns = None), and tables in which one
\* column breaks one rule.
TableObjects ==
    [name : {Some(n) : n \in TableNames},
     columns : {Some(ValidList(n)) : n \in 0..MaxColumns}]
    \cup [name : {None, Some("")},
          columns : {None, Some(ValidList(MaxColumns))}]
    \cup [name : {Some(n) : n \in TableNames}, columns : {None}]
    \cup [name : {Some("t1")}, columns : {Some(l) : l \in BadLists}]

\* tables_provider.cpp:440-477  the checks on one column.
ColumnValid(column) ==
    /\ Has(column.name) /\ Val(column.name) # ""
    /\ Has(column.ordinal_position) /\ Val(column.ordinal_position) > 0
    /\ Has(column.data_type_id) /\ Val(column.data_type_id) >= 0
    /\ get_datatype_metadata(Val(column.data_type_id)) = "OK"
    /\ Has(column.nullable) /\ Val(column.nullable) # ""

\* tables_provider.cpp:418-481  TablesProvider::fill_parameters.  get_child
\* on a tree without a "columns" node throws ptree_bad_path.
fill_parameters(table) ==
    IF ~Has(table.name) \/ Val(table.name) = "" THEN "INVALID_PARAMETER"
    ELSE IF ~Has(table.columns) THEN "ptree_bad_path"
    ELSE IF \E i \in 1..Len(Val(table.columns)) :
               ~ColumnValid(Val(table.columns)[i])
         THEN "INVALID_PARAMETER"
         ELSE "OK"

\* The repository: the table rows and the column rows in the order of their
\* insertion, and the column-statistic rows.
EmptyStore == [tables |-> <<>>, columns |-> <<>>, statistics |-> {}]

\* The repository a DAO call reads: the working copy inside a transaction,
\* the committed repository outside.
Visible == IF txn = "open" THEN work ELSE db

NameStored(store, name) ==
    \E i \in 1..Len(store.tables) : store.tables[i].name = name

\* TablesDAO::insert_table_metadata: an insert under a stored name fails on
\* the uniqueness constraint; any insert can fail in the backend.
insert_table_metadata_results(name) ==
    IF NameStored(Visible, name) THEN DaoErrors ELSE {"OK"} \cup DaoErrors

\* ColumnsDAO::insert_one_column_metadata
insert_one_column_metadata_results == {"OK"} \cup DaoErrors

\* The row ColumnsDAO::insert_one_column_metadata stores for a column.
ColumnRow(table_id, column) ==
    [table_id |-> table_id, name |-> Val(column.name),
     ordinal_position |-> Val(column.ordinal_position),
     data_type_id |-> Val(column.data_type_id),
     nullable |-> Val(column.nullable)]

\* TablesDAO::select_table_metadata(Tables::NAME, name, object): the result
\* code and the tree of the row found.
select_table_metadata_results(name) ==
    LET rows == {i \in 1..Len(Visible.tables) : Visible.tables[i].name = name}
    IN (IF rows = {}
        THEN {[error |-> "NAME_NOT_FOUND", object |-> None]}
        ELSE {[error |-> "OK",
               object |-> Some([id |-> Some(Visible.tables[i].id),
                                name |-> Some(name)])] : i \in rows})
       \cup {[error |-> e, object |-> None] : e \in DaoErrors}

\* DBSessionManager::start_transaction / commit / rollback
session_results == {"OK"} \cup SessionErrors

\* tables_provider.cpp:34-65  TablesProvider::init: obtains the DAOs it does
\* not hold yet; a failing get_dao ends it with that error.  Each outcome is
\* the error and the DAOs held afterwards.
init_results ==
    {<<"OK", "both">>} \cup
    (IF daos = "both" THEN {}
     ELSE {<<e, daos>> : e \in SessionErrors}) \cup
    (IF daos = "none" THEN {<<e, "tables">> : e \in SessionErrors} ELSE {})

NoOperation ==
    [op |-> "none", pc |-> "idle", object |-> [name |-> None, columns |-> None],
     table_id |-> 0, i |-> 0, error |-> "UNKNOWN", dao_error |-> "OK",
     fill |-> "NONE", rollback_result |-> "NONE", rselect |-> None,
     log |-> <<>>, pre |-> EmptyStore,
     key |-> "none", value |-> None, result |-> None,
     stat |-> [id |-> None, name |-> None, tuples |-> None],
     lookups |-> <<>>]

Ready == call.pc \in {"idle", "done"}

\* Variant: the call goes on whatever the parameter check returned.
AfterFillParametersAlways(error) == "start_transaction"

\* tables_provider.cpp:84-87  if (error != ErrorCode::OK) return error;
AfterFillParameters(error) ==
    IF error = "OK" THEN "start_transaction" ELSE "done"

\* tables_provider.cpp:73-87  add_table_metadata: init() and the parameter
\* check; an exception of fill_parameters ends the call.
add_table_metadata(object) ==
    /\ Ready
    /\ table_seq < MaxTableId
    /\ \E r \in init_results :
          /\ daos' = r[2]
          /\ call' =
               IF r[1] # "OK"
               THEN [NoOperation EXCEPT !.op = "add_table_metadata",
                        !.object = object, !.pre = db, !.pc = "done",
                        !.error = r[1], !.log = <<"init">>]
               ELSE [NoOperation EXCEPT !.op = "add_table_metadata",
                        !.object = object, !.pre = db,
                        !.fill = fill_parameters(object),
                        !.error = fill_parameters(object),
                        !.pc = AfterFillParameters(fill_parameters(object)),
                        !.log = <<"init", "fill_parameters">>]
    /\ UNCHANGED <<db, work, txn, table_seq, added, oidVars, docVars, extVars>>

\* tables_provider.cpp:89-92  start_transaction
add_start_transaction ==
    /\ call.op = "add_table_metadata" /\ call.pc = "start_transaction"
    /\ \E r \in session_results :
          /\ call' = [call EXCEPT !.error = r,
                         !.log = Append(@, "start_transaction"),
                         !.pc = IF r = "OK" THEN "insert_table" ELSE "done"]
          /\ txn' = IF r = "OK" THEN "open" ELSE txn
          /\ work' = IF r = "OK" THEN db ELSE work
    /\ UNCHANGED <<db, table_seq, daos, added, oidVars, docVars, extVars>>

\* tables_provider.cpp:96-97  a failed table insert is rolled back first.
OnTableInsertError == "rollback_table"

\* tables_provider.cpp:95-96  insert_table_metadata(object, table_id)
add_insert_table ==
    /\ call.op = "add_table_metadata" /\ call.pc = "insert_table"
    /\ \E r \in insert_table_metadata_results(Val(call.object.name)) :
          IF r = "OK"
          THEN /\ table_seq' = table_seq + 1
               /\ work' = [work EXCEPT !.tables =
                              Append(@, [id |-> table_seq + 1,
                                         name |-> Val(call.object.name),
                                         tuples |-> None])]
               /\ call' = [call EXCEPT !.error = r, !.table_id = table_seq + 1,
                              !.i = 1,
                              !.log = Append(@, "insert_table_metadata"),
                              !.pc = IF Len(Val(call.object.columns)) = 0
                                     THEN "commit" ELSE "columns"]
          ELSE /\ call' = [call EXCEPT !.error = r, !.dao_error = r,
                              !.log = Append(@, "insert_table_metadata"),
                              !.pc = OnTableInsertError]
               /\ UNCHANGED <<table_seq, work>>
    /\ UNCHANGED <<db, txn, daos, added, oidVars, docVars, extVars>>

\* Variant: the error of the failed step is returned whatever the rollback
\* returned.
ErrorAfterRollbackKept(error, rollback_result) == error

\* tables_provider.cpp:97-100, 125-128, 289-292, 326-329, 338-341  the error
\* of a failed rollback replaces the error of the failed step.
ErrorAfterRollback(error, rollback_result) ==
    IF rollback_result = "OK" THEN error ELSE rollback_result

\* tables_provider.cpp:97-100  rollback after the failed table insert; a
\* failed rollback ends the call with the rollback's error.
add_rollback_table ==
    /\ call.op = "add_table_metadata" /\ call.pc = "rollback_table"
    /\ \E r \in session_results :
          /\ call' = [call EXCEPT !.rollback_result = r,
                         !.error = ErrorAfterRollback(@, r),
                         !.log = Append(@, "rollback"),
                         !.pc = IF r = "OK" THEN "select" ELSE "done"]
          /\ txn' = IF r = "OK" THEN "none" ELSE "failed"
    /\ work' = db
    /\ UNCHANGED <<db, table_seq, daos, added, oidVars, docVars, extVars>>

\* Variant: the error is overridden whatever the read by name returned.
ErrorAfterSelectAlways(error, rselect) == "TABLE_NAME_ALREADY_EXISTS"

\* Variant: the error is never overridden.
ErrorAfterSelectNever(error, rselect) == error

\* tables_provider.cpp:108-116  the error is overridden when the read by name
\* finds a row that carries an id.
ErrorAfterSelect(error, rselect) ==
    IF rselect.error = "OK" /\ Has(Val(rselect.object).id)
    THEN "TABLE_NAME_ALREADY_EXISTS"
    ELSE error

\* tables_provider.cpp:102-116  the read by name that tells "already exists"
\* from other insert failures.
add_select_by_name ==
    /\ call.op = "add_table_metadata" /\ call.pc = "select"
    /\ \E r \in select_table_metadata_results(Val(call.object.name)) :
          call' = [call EXCEPT !.rselect = Some(r),
                      !.error = ErrorAfterSelect(call.error, r),
                      !.log = Append(@, "select_table_metadata"),
                      !.pc = "done"]
    /\ UNCHANGED <<db, work, txn, table_seq, daos, added, oidVars, docVars, extVars>>

\* Variant: a failed column insert leads straight to the commit.
OnColumnInsertErrorCommit == "commit"

\* tables_provider.cpp:124-125  a failed column insert is rolled back.
OnColumnInsertError == "rollback_column"

\* tables_provider.cpp:120-131  one round of the loop over the columns:
\* insert_one_column_metadata(table_id, column)
add_insert_column ==
    /\ call.op = "add_table_metadata" /\ call.pc = "columns"
    /\ \E r \in insert_one_column_metadata_results :
          IF r = "OK"
          THEN /\ work' = [work EXCEPT !.columns =
                              Append(@, ColumnRow(call.table_id,
                                           Val(call.object.columns)[call.i]))]
               /\ call' = [call EXCEPT !.error = r, !.i = @ + 1,
                              !.log = Append(@, "insert_one_column_metadata"),
                              !.pc = IF call.i = Len(Val(call.object.columns))
                                     THEN "commit" ELSE "columns"]
          ELSE /\ call' = [call EXCEPT !.error = r, !.dao_error = r,
                              !.log = Append(@, "insert_one_column_metadata"),
                              !.pc = OnColumnInsertError]
               /\ UNCHANGED work
    /\ UNCHANGED <<db, txn, table_seq, daos, added, oidVars, docVars, extVars>>

\* tables_provider.cpp:125-129  rollback after the failed column insert; a
\* failed rollback replaces the error.
add_rollback_column ==
    /\ call.op = "add_table_metadata" /\ call.pc = "rollback_column"
    /\ \E r \in session_results :
          /\ call' = [call EXCEPT !.rollback_result = r,
                         !.error = ErrorAfterRollback(@, r),
                         !.log = Append(@, "rollback"),
                         !.pc = "done"]
          /\ txn' = IF r = "OK" THEN "none" ELSE "failed"
    /\ work' = db
    /\ UNCHANGED <<db, table_seq, daos, added, oidVars, docVars, extVars>>

\* tables_provider.cpp:133-135  commit; its result is the call's result.
add_commit ==
    /\ call.op = "add_table_metadata" /\ call.pc = "commit"
    /\ \E r \in session_results :
          /\ call' = [call EXCEPT !.error = r, !.log = Append(@, "commit"),
                         !.pc = "done"]
          /\ db' = IF r = "OK" THEN work ELSE db
          /\ work' = IF r = "OK" THEN work ELSE db
          /\ txn' = IF r = "OK" THEN "none" ELSE "failed"
          /\ added' = IF r = "OK"
                       THEN [added EXCEPT ![call.table_id] = Some(call.object)]
                       ELSE added
    /\ UNCHANGED <<table_seq, daos, oidVars, docVars, extVars>>

(***************************************************************************)
(* TablesProvider: get_table_metadata, set_table_statistic and             *)
(* remove_table_metadata.  The row-count rules of the DAO calls follow     *)
(* section 4.4 of the specification: a select or a delete that expects     *)
(* 0..N rows reports INVALID_PARAMETER for zero rows, a single-key update  *)
(* or delete reports it unless exactly one row is affected.                *)
(***************************************************************************)

\* The keys a table is looked up by: Tables::ID and Tables::NAME.
Keys == {"id", "name"}

KeyValues(key) == IF key = "id" THEN 1..MaxTableId ELSE TableNames

\* Tuple counts handed to set_table_statistic.
TuplesValues == {10}

\* Payloads of column statistics.
Payloads == {"s1"}

\* Indexes of the table rows of a store with key = value.
TableRows(store, key, value) ==
    {i \in 1..Len(store.tables) :
        IF key = "id" THEN store.tables[i].id = value
                      ELSE store.tables[i].name = value}

\* The column rows of a store that belong to a table, in stored order.
ColumnsOf(store, table_id) ==
    SelectSeq(store.columns, LAMBDA c : c.table_id = table_id)

NotFound(key) == IF key = "id" THEN "ID_NOT_FOUND" ELSE "NAME_NOT_FOUND"

\* The error a select, an update or a delete reports when the backend fails
\* (INVALID_PARAMETER is its report of a wrong row count).
BackendErrors == {"INTERNAL_ERROR"}

\* The tree TablesDAO::select_table_metadata builds from a table row.
TableTree(row) ==
    [id |-> Some(row.id), name |-> Some(row.name), tuples |-> row.tuples,
     columns |-> None]

\* TablesDAO::select_table_metadata(key, value, object)
select_table_by_key_results(key, value) ==
    LET rows == TableRows(Visible, key, value)
    IN (IF rows = {}
        THEN {[error |-> NotFound(key), object |-> None]}
        ELSE {[error |-> "OK", object |-> Some(TableTree(Visible.tables[i]))]
                 : i \in rows})
       \cup {[error |-> e, object |-> None] : e \in BackendErrors}

\* TablesDAO::select_table_metadata(container): every table row, in stored
\* order.
select_all_tables_results ==
    {[error |-> "OK",
      container |-> [i \in 1..Len(Visible.tables) |->
                        TableTree(Visible.tables[i])]]}
    \cup {[error |-> e, container |-> <<>>] : e \in BackendErrors}

\* ColumnsDAO::select_column_metadata(Tables::Column::TABLE_ID, table_id,
\* columns): the rows of the table in stored order; zero rows are reported as
\* INVALID_PARAMETER.
select_column_metadata_results(table_id) ==
    (IF ColumnsOf(Visible, table_id) = <<>>
     THEN {[error |-> "INVALID_PARAMETER", columns |-> <<>>]}
     ELSE {[error |-> "OK", columns |-> ColumnsOf(Visible, table_id)]})
    \cup {[error |-> e, columns |-> <<>>] : e \in BackendErrors}

\* Variant: only a lookup that returned OK attaches the columns.
ColumnLookupAttachedOkOnly == {"OK"}

\* tables_provider.cpp:405  the results of the column lookup after which the
\* columns subtree is attached and OK is returned.
ColumnLookupAttached == {"OK", "INVALID_PARAMETER"}

\* Variant: the table is returned as the table DAO built it, whatever the
\* column lookup returned.
get_column_metadata_resultsBare(table_id, tables) ==
    {[error |-> IF r.error = "INVALID_PARAMETER" THEN "OK" ELSE r.error,
      lookup |-> r.error, object |-> tables]
       : r \in select_column_metadata_results(table_id)}

\* tables_provider.cpp:397-411  TablesProvider::get_column_metadata, for each
\* result of the column lookup.
get_column_metadata_results(table_id, tables) ==
    {IF r.error \in ColumnLookupAttached
     THEN [error |-> "OK", lookup |-> r.error,
           object |-> [tables EXCEPT !.columns = Some(r.columns)]]
     ELSE [error |-> r.error, lookup |-> r.error, object |-> tables]
       : r \in select_column_metadata_results(table_id)}

\* tables_provider.cpp:355-388  TablesProvider::get_all_column_metadata on the
\* tree of one table: the first child of the tree is a leaf, so the id is
\* taken from the tree itself and the loop ends after one lookup.
get_all_column_metadata_results(tables) ==
    IF ~Has(tables.id)
    THEN {[error |-> "INTERNAL_ERROR", lookup |-> "NONE", object |-> tables]}
    ELSE get_column_metadata_results(Val(tables.id), tables)

\* tables_provider.cpp:147-172  TablesProvider::get_table_metadata(key, value,
\* object)
get_table_metadata(key, value) ==
    /\ Ready
    /\ \E r \in init_results :
          /\ daos' = r[2]
          /\ LET start == [NoOperation EXCEPT !.op = "get_table_metadata",
                              !.key = key, !.value = Some(value),
                              !.pre = db, !.pc = "done"]
             IN IF r[1] # "OK"
                THEN call' = [start EXCEPT !.error = r[1], !.log = <<"init">>]
                ELSE \E t \in select_table_by_key_results(key, value) :
                        IF t.error # "OK"
                        THEN call' = [start EXCEPT !.error = t.error,
                                 !.log = <<"init", "select_table_metadata">>]
                        ELSE \E c \in (IF key = "id"
                                       THEN get_column_metadata_results(
                                                value, Val(t.object))
                                       ELSE get_all_column_metadata_results(
                                                Val(t.object))) :
                                call' = [start EXCEPT !.error = c.error,
                                    !.result = Some(c.object),
                                    !.lookups = <<[id |-> Val(Val(t.object).id),
                                                   error |-> c.lookup]>>,
                                    !.log = <<"init", "select_table_metadata",
                                              "select_column_metadata">>]
    /\ UNCHANGED <<db, work, txn, table_seq, added, oidVars, docVars, extVars>>

\* tables_provider.cpp:179-192  TablesProvider::get_table_metadata(container):
\* init() and the select of all table rows.
get_all_table_metadata ==
    /\ Ready
    /\ \E r \in init_results :
          /\ daos' = r[2]
          /\ LET start == [NoOperation EXCEPT !.op = "get_all_table_metadata",
                              !.pre = db, !.pc = "done"]
             IN IF r[1] # "OK"
                THEN call' = [start EXCEPT !.error = r[1], !.log = <<"init">>]
                ELSE \E t \in select_all_tables_results :
                        call' = [start EXCEPT !.error = t.error,
                                    !.result = Some(t.container), !.i = 1,
                                    !.log = <<"init", "select_table_metadata">>,
                                    !.pc = IF t.error = "OK"
                                              /\ Len(t.container) > 0
                                           THEN "attach" ELSE "done"]
    /\ UNCHANGED <<db, work, txn, table_seq, added, oidVars, docVars, extVars>>

\* Variant: the loop goes on to the next table after a failed lookup.
AfterColumnLookupGoOn(error, i, n) == IF i = n THEN "done" ELSE "attach"

\* tables_provider.cpp:196-199  if (error != ErrorCode::OK) break;
AfterColumnLookup(error, i, n) ==
    IF error # "OK" \/ i = n THEN "done" ELSE "attach"

\* tables_provider.cpp:194-200  one round of the loop over the container:
\* get_all_column_metadata(table_object)
get_all_attach_columns ==
    /\ call.op = "get_all_table_metadata" /\ call.pc = "attach"
    /\ \E c \in get_all_column_metadata_results(Val(call.result)[call.i]) :
          call' = [call EXCEPT !.error = c.error,
                      !.result = Some([Val(call.result) EXCEPT
                                          ![call.i] = c.object]),
                      !.lookups = Append(@,
                          [id |-> Val(Val(call.result)[call.i].id),
                           error |-> c.lookup]),
                      !.i = @ + 1,
                      !.log = Append(@, "select_column_metadata"),
                      !.pc = AfterColumnLookup(c.error, call.i,
                                               Len(Val(call.result)))]
    /\ UNCHANGED <<db, work, txn, table_seq, daos, added, oidVars, docVars, extVars>>

\* The well-formed tables among the objects handed to add_table_metadata.
ValidTableObjects == {t \in TableObjects : fill_parameters(t) = "OK"}

\* The statistic objects handed to set_table_statistic.
StatisticObjects ==
    [id : {None} \cup {Some(v) : v \in 1..MaxTableId},
     name : {None} \cup {Some(n) : n \in TableNames},
     tuples : {None} \cup {Some(v) : v \in TuplesValues}]

\* TablesDAO::update_reltuples(tuples, key, value, table_id): exactly one
\* row has to be affected.
update_reltuples_results(key, value) ==
    IF Cardinality(TableRows(Visible, key, value)) = 1
    THEN {"OK"} \cup BackendErrors
    ELSE {"INVALID_PARAMETER"} \cup BackendErrors

\* TablesDAO::delete_table_metadata(key, value, table_id): exactly one row
\* has to be affected.
delete_table_metadata_results(key, value) ==
    IF Cardinality(TableRows(Visible, key, value)) = 1
    THEN {"OK"} \cup BackendErrors
    ELSE {"INVALID_PARAMETER"} \cup BackendErrors

\* ColumnsDAO::delete_column_metadata(Tables::Column::TABLE_ID, table_id): at
\* least one row has to be affected.
delete_column_metadata_results(table_id) ==
    IF ColumnsOf(Visible, table_id) # <<>>
    THEN {"OK"} \cup BackendErrors
    ELSE {"INVALID_PARAMETER"} \cup BackendErrors

\* tables_provider.cpp:258-262  the parameter check of set_table_statistic.
StatisticParametersValid(object) ==
    ~((~Has(object.id) /\ ~Has(object.name)) \/ ~Has(object.tuples))

\* tables_provider.cpp:265-273  the key and the value the update goes by.
StatisticKey(object) == IF Has(object.id) THEN "id" ELSE "name"
StatisticValue(object) ==
    IF Has(object.id) THEN Val(object.id) ELSE Val(object.name)

\* tables_provider.cpp:237-262  set_table_statistic: init() and the parameter
\* check.
set_table_statistic(object) ==
    /\ Ready
    /\ \E r \in init_results :
          /\ daos' = r[2]
          /\ LET start == [NoOperation EXCEPT !.op = "set_table_statistic",
                              !.stat = object, !.pre = db, !.pc = "done"]
             IN call' =
                  IF r[1] # "OK"
                  THEN [start EXCEPT !.error = r[1], !.log = <<"init">>]
                  ELSE IF ~StatisticParametersValid(object)
                  THEN [start EXCEPT !.error = "INVALID_PARAMETER",
                           !.log = <<"init", "check">>]
                  ELSE [start EXCEPT !.error = "OK",
                           !.key = StatisticKey(object),
                           !.value = Some(StatisticValue(object)),
                           !.log = <<"init", "check">>,
                           !.pc = "start_transaction"]
    /\ UNCHANGED <<db, work, txn, table_seq, added, oidVars, docVars, extVars>>

\* tables_provider.cpp:278-281  start_transaction
set_start_transaction ==
    /\ call.op = "set_table_statistic" /\ call.pc = "start_transaction"
    /\ \E r \in session_results :
          /\ call' = [call EXCEPT !.error = r,
                         !.log = Append(@, "start_transaction"),
                         !.pc = IF r = "OK" THEN "update" ELSE "done"]
          /\ txn' = IF r = "OK" THEN "open" ELSE txn
          /\ work' = IF r = "OK" THEN db ELSE work
    /\ UNCHANGED <<db, table_seq, daos, added, oidVars, docVars, extVars>>

\* Variant: the transaction is committed whatever the update returned.
AfterUpdateCommit(error) == "commit"

\* tables_provider.cpp:286-293  commit after a successful update, rollback
\* after a failed one.
AfterUpdate(error) == IF error = "OK" THEN "commit" ELSE "rollback"

\* tables_provider.cpp:284  update_reltuples(tuples, key, value, table_id).
\* The step acts on the rows the key selects whatever code it reports.
set_update_reltuples ==
    /\ call.op = "set_table_statistic" /\ call.pc = "update"
    /\ \E r \in update_reltuples_results(call.key, Val(call.value)) :
          /\ work' = IF r = "OK"
                     THEN [work EXCEPT !.tables =
                             [i \in 1..Len(work.tables) |->
                                IF i \in TableRows(work, call.key,
                                                   Val(call.value))
                                THEN [work.tables[i] EXCEPT
                                         !.tuples = call.stat.tuples]
                                ELSE work.tables[i]]]
                     ELSE work
          /\ call' = [call EXCEPT !.error = r,
                         !.dao_error = r,
                         !.table_id =
                            IF r = "OK"
                            THEN work.tables[CHOOSE i \in TableRows(work,
                                     call.key, Val(call.value)) : TRUE].id
                            ELSE @,
                         !.log = Append(@, "update_reltuples"),
                         !.pc = AfterUpdate(r)]
    /\ UNCHANGED <<db, txn, table_seq, daos, added, oidVars, docVars, extVars>>

\* tables_provider.cpp:286-287  commit; its result is the call's result.
set_commit ==
    /\ call.op = "set_table_statistic" /\ call.pc = "commit"
    /\ \E r \in session_results :
          /\ call' = [call EXCEPT !.error = r, !.log = Append(@, "commit"),
                         !.pc = "done"]
          /\ db' = IF r = "OK" THEN work ELSE db
          /\ work' = IF r = "OK" THEN work ELSE db
          /\ txn' = IF r = "OK" THEN "none" ELSE "failed"
    /\ UNCHANGED <<table_seq, daos, added, oidVars, docVars, extVars>>

\* tables_provider.cpp:288-293  rollback; a failed rollback replaces the
\* error.
set_rollback ==
    /\ call.op = "set_table_statistic" /\ call.pc = "rollback"
    /\ \E r \in session_results :
          /\ call' = [call EXCEPT !.rollback_result = r,
                         !.error = ErrorAfterRollback(@, r),
                         !.log = Append(@, "rollback"),
                         !.pc = "done"]
          /\ txn' = IF r = "OK" THEN "none" ELSE "failed"
    /\ work' = db
    /\ UNCHANGED <<db, table_seq, daos, added, oidVars, docVars, extVars>>

\* tables_provider.cpp:308-317  remove_table_metadata: init()
remove_table_metadata(key, value) ==
    /\ Ready
    /\ \E r \in init_results :
          /\ daos' = r[2]
          /\ call' = [NoOperation EXCEPT !.op = "remove_table_metadata",
                         !.key = key, !.value = Some(value), !.pre = db,
                         !.error = r[1], !.log = <<"init">>,
                         !.pc = IF r[1] = "OK" THEN "start_transaction"
                                ELSE "done"]
    /\ UNCHANGED <<db, work, txn, table_seq, added, oidVars, docVars, extVars>>

\* tables_provider.cpp:319-322  start_transaction
remove_start_transaction ==
    /\ call.op = "remove_table_metadata" /\ call.pc = "start_transaction"
    /\ \E r \in session_results :
          /\ call' = [call EXCEPT !.error = r,
                         !.log = Append(@, "start_transaction"),
                         !.pc = IF r = "OK" THEN "delete_table" ELSE "done"]
          /\ txn' = IF r = "OK" THEN "open" ELSE txn
          /\ work' = IF r = "OK" THEN db ELSE work
    /\ UNCHANGED <<db, table_seq, daos, added, oidVars, docVars, extVars>>

\* Variant: a failed table delete ends the call at once.
AfterDeleteTableReturn(error) ==
    IF error = "OK" THEN "delete_columns" ELSE "done"

\* tables_provider.cpp:325-331  a failed table delete is rolled back.
AfterDeleteTable(error) ==
    IF error = "OK" THEN "delete_columns" ELSE "rollback"

\* tables_provider.cpp:324  delete_table_metadata(key, value, table_id)
remove_delete_table ==
    /\ call.op = "remove_table_metadata" /\ call.pc = "delete_table"
    /\ \E r \in delete_table_metadata_results(call.key, Val(call.value)) :
          LET i == CHOOSE i \in TableRows(work, call.key, Val(call.value))
                      : TRUE
          IN /\ work' = IF r = "OK"
                        THEN [work EXCEPT !.tables =
                                 SubSeq(@, 1, i - 1)
                                 \o SubSeq(@, i + 1, Len(@))]
                        ELSE work
             /\ call' = [call EXCEPT !.error = r, !.dao_error = r,
                            !.table_id = IF r = "OK" THEN work.tables[i].id
                                         ELSE @,
                            !.log = Append(@, "delete_table_metadata"),
                            !.pc = AfterDeleteTable(r)]
    /\ UNCHANGED <<db, txn, table_seq, daos, added, oidVars, docVars, extVars>>

\* Variant: the transaction is committed whatever the column delete returned.
AfterDeleteColumnsCommit(error) == "commit"

\* tables_provider.cpp:335-342  commit after a successful column delete,
\* rollback after a failed one.
AfterDeleteColumns(error) == IF error = "OK" THEN "commit" ELSE "rollback"

\* tables_provider.cpp:333-334  delete_column_metadata(Tables::Column::
\* TABLE_ID, std::to_string(table_id))
remove_delete_columns ==
    /\ call.op = "remove_table_metadata" /\ call.pc = "delete_columns"
    /\ \E r \in delete_column_metadata_results(call.table_id) :
          /\ work' = IF r = "OK"
                     THEN [work EXCEPT !.columns =
                             SelectSeq(@, LAMBDA c :
                                             c.table_id # call.table_id)]
                     ELSE work
          /\ call' = [call EXCEPT !.error = r, !.dao_error = r,
                         !.log = Append(@, "delete_column_metadata"),
                         !.pc = AfterDeleteColumns(r)]
    /\ UNCHANGED <<db, txn, table_seq, daos, added, oidVars, docVars, extVars>>

\* tables_provider.cpp:335-336  commit; its result is the call's result.
remove_commit ==
    /\ call.op = "remove_table_metadata" /\ call.pc = "commit"
    /\ \E r \in session_results :
          /\ call' = [call EXCEPT !.error = r, !.log = Append(@, "commit"),
                         !.pc = "done"]
          /\ db' = IF r = "OK" THEN work ELSE db
          /\ work' = IF r = "OK" THEN work ELSE db
          /\ txn' = IF r = "OK" THEN "none" ELSE "failed"
    /\ UNCHANGED <<table_seq, daos, added, oidVars, docVars, extVars>>

\* tables_provider.cpp:325-329, 337-341  rollback after a failed delete; a
\* failed rollback replaces the error.
remove_rollback ==
    /\ call.op = "remove_table_metadata" /\ call.pc = "rollback"
    /\ \E r \in session_results :
          /\ call' = [call EXCEPT !.rollback_result = r,
                         !.error = ErrorAfterRollback(@, r),
                         !.log = Append(@, "rollback"),
                         !.pc = "done"]
          /\ txn' = IF r = "OK" THEN "none" ELSE "failed"
    /\ work' = db
    /\ UNCHANGED <<db, table_seq, daos, added, oidVars, docVars, extVars>>

\* The ordinal positions a column statistic is stored for.
StatOrdinals == {1}

\* statistics_dao.cpp:217-260  StatisticsDAO::
\* upsert_one_column_statistic_by_table_id_column_ordinal_position, called
\* outside a transaction for a column of a stored table: the row with the key
\* (table_id, ordinal_position) is inserted or replaced.
upsert_one_column_statistic(table_id, ordinal_position, column_statistic) ==
    /\ Ready
    /\ txn # "open"
    /\ \E k \in 1..Len(db.columns) :
          /\ db.columns[k].table_id = table_id
          /\ db.columns[k].ordinal_position = ordinal_position
    /\ LET rows == {s \in db.statistics :
                       ~(s.table_id = table_id
                         /\ s.ordinal_position = ordinal_position)}
                   \cup {[table_id |-> table_id,
                          ordinal_position |-> ordinal_position,
                          column_statistic |-> column_statistic]}
       IN /\ db' = [db EXCEPT !.statistics = rows]
          /\ work' = [db EXCEPT !.statistics = rows]
    /\ call' = [NoOperation EXCEPT !.op = "upsert_one_column_statistic",
                   !.pre = db, !.table_id = table_id, !.pc = "done",
                   !.error = "OK", !.log = <<"upsert">>]
    /\ UNCHANGED <<txn, table_seq, daos, added, oidVars, docVars, extVars>>

(***************************************************************************)
(* Part III.  Document backend: IndexDaoJson on a DocumentSession          *)
(*                                                                         *)
(* IndexDaoJson is modelled from dao/json/index_dao_json.cpp.  The session *)
(* it works on and the id generator it calls are not part of the sources   *)
(* at hand; the session is modelled from section 4.3 of the specification: *)
(* the first load_contents of a transaction reads the backing document,    *)
(* later ones return the tree in memory, commit replaces the document by   *)
(* that tree, rollback discards it.                                        *)
(***************************************************************************)

Sessions == {"s1", "s2"}

IndexNames == {"i1", "i2"}

\* Object ids after which no further IndexDaoJson::insert is started.
MaxIndexId == 2

\* Objects a collection holds at most, as many as there are names; a call
\* that would add one more is not started.
MaxObjects == Cardinality(IndexNames)

\* The objects handed to IndexDaoJson::insert, with and without a name.
InsertObjects ==
    [name : {None} \cup {Some(n) : n \in IndexNames},
     id : {None}, format_version : {None}, generation : {None},
     tag : {"a"}]

\* The objects handed to IndexDaoJson::update: one without stamps, one that
\* carries stamps of its own.
UpdateObjects ==
    {[name |-> Some("i2"), id |-> None, format_version |-> None,
      generation |-> None, tag |-> "b"],
     [name |-> Some("i2"), id |-> Some(9), format_version |-> Some(9),
      generation |-> Some(9), tag |-> "b"]}

\* The keys objects are looked up by, and the values tried for each.
IndexKeys == {"id", "name", "other"}

\* The keys IndexDaoJson::update is called with: a key can be any field of
\* the stored objects.
UpdateKeys == {"id", "name", "generation"}

IndexValues(key) ==
    IF key = "id" THEN 1..MaxIndexId
    ELSE IF key = "name" THEN IndexNames
    ELSE IF key = "generation" THEN {1} ELSE {"x"}

\* ptree::get_optional<std::string>(key) on an object.
FieldOf(object, key) ==
    IF key = "id" THEN object.id
    ELSE IF key = "name" THEN object.name
    ELSE IF key = "generation" THEN object.generation
    ELSE IF key = "format_version" THEN object.format_version ELSE None

\* Dao::get_not_found_error_code(key)
get_not_found_error_code(key) ==
    IF key = "id" THEN "ID_NOT_FOUND"
    ELSE IF key = "name" THEN "NAME_NOT_FOUND" ELSE "NOT_FOUND"

\* A session that holds no tree.
Unloaded == [loaded |-> FALSE, contents |-> <<>>, fresh |-> <<>>,
             discarded |-> <<>>,
             base |-> [exists |-> FALSE, indexes |-> <<>>]]

\* DocumentSession::load_contents on a session record: the result code,
\* whether the backing document was read, and the session afterwards.  A
\* read of the document can fail; a missing document gives an empty root
\* collection.
load_contents_results(session) ==
    IF session.loaded
    THEN {[error |-> "OK", read |-> FALSE, session |-> session]}
    ELSE {[error |-> "OK", read |-> TRUE,
           session |-> [loaded |-> TRUE,
                        contents |-> IF doc.exists THEN doc.indexes ELSE <<>>,
                        fresh |-> <<>>, discarded |-> session.discarded,
                        base |-> doc]],
          [error |-> "INTERNAL_ERROR", read |-> TRUE, session |-> session]}

\* ObjectIdGenerator::generate(OID_KEY_NAME_TABLE) when the counters are read
\* and written: the id returned and the counter persisted.
oid_generate_results ==
    {[id |-> index_oid + 1, oid |-> index_oid + 1]}

\* ObjectIdGenerator::generate(OID_KEY_NAME_TABLE) when reading or writing
\* the counters fails: INVALID_OID is returned, and the counter is as before
\* (the file could not be read or opened), already advanced, or lost (the
\* write stopped after or before the entry of the key, object_id.cpp:66-71).
oid_generate_failures ==
    {[id |-> INVALID_OID, oid |-> o] : o \in {index_oid, index_oid + 1, 0}}

\* index_dao_json.cpp:49-64  find_metadata_object: the first object of the
\* collection whose field key has the value.
find_metadata_object(objects, key, value) ==
    LET hits == {i \in 1..Len(objects) :
                    Has(FieldOf(objects[i], key))
                    /\ Val(FieldOf(objects[i], key)) = value}
    IN IF hits = {}
       THEN [error |-> "NOT_FOUND", object |-> None]
       ELSE [error |-> "OK",
             object |-> Some(objects[CHOOSE i \in hits :
                                        \A j \in hits : i <= j])]

\* Removal of the i-th object of a collection.
Erase(objects, i) == SubSeq(objects, 1, i - 1) \o SubSeq(objects, i + 1, Len(objects))

RECURSIVE delete_scan(_, _, _, _)
\* index_dao_json.cpp:93-124  the loop of delete_metadata_object from the
\* i-th object on.
delete_scan(objects, key, value, i) ==
    IF i > Len(objects)
    THEN [error |-> get_not_found_error_code(key), objects |-> objects,
          object_id |-> None]
    ELSE IF ~Has(objects[i].id)
    THEN [error |-> "INTERNAL_ERROR", objects |-> objects, object_id |-> None]
    ELSE IF key = "id"
    THEN IF Val(objects[i].id) = value
         THEN [error |-> "OK", objects |-> Erase(objects, i),
               object_id |-> objects[i].id]
         ELSE delete_scan(objects, key, value, i + 1)
    ELSE IF key = "name"
    THEN IF Has(objects[i].name) /\ Val(objects[i].name) = value
         THEN [error |-> "OK", objects |-> Erase(objects, i),
               object_id |-> objects[i].id]
         ELSE delete_scan(objects, key, value, i + 1)
    ELSE [error |-> "NOT_SUPPORTED", objects |-> objects, object_id |-> None]

\* Variant: the error is not initialised with the not-found code of the key.
delete_metadata_objectPlainNotFound(objects, key, value) ==
    LET r == delete_scan(objects, key, value, 1)
    IN IF r.error = get_not_found_error_code(key)
       THEN [r EXCEPT !.error = "NOT_FOUND"] ELSE r

\* Variant: the last matching object is erased, and objects without an id
\* are passed over.
delete_metadata_objectLastMatch(objects, key, value) ==
    LET hits == {i \in 1..Len(objects) :
                    /\ Has(objects[i].id)
                    /\ Has(FieldOf(objects[i], key))
                    /\ Val(FieldOf(objects[i], key)) = value}
        last_hit == CHOOSE i \in hits : \A j \in hits : j <= i
    IN IF key \notin {"id", "name"} \/ hits = {}
       THEN delete_scan(objects, key, value, 1)
       ELSE [error |-> "OK", objects |-> Erase(objects, last_hit),
             object_id |-> objects[last_hit].id]

\* index_dao_json.cpp:82-127  delete_metadata_object
delete_metadata_object(objects, key, value) ==
    delete_scan(objects, key, value, 1)

\* The ids of a sequence of objects that are not the given id.
WithoutId(objects, id) == SelectSeq(objects, LAMBDA o : o.id # id)

NoDaoCall ==
    [session |-> "none", op |-> "none", key |-> "none", value |-> None,
     object |-> None, error |-> "UNKNOWN", result |-> None,
     object_id |-> None, read |-> FALSE, pre |-> Unloaded,
     pre_doc |-> [exists |-> FALSE, indexes |-> <<>>], pre_oid |-> 0,
     issued |-> {}, pre_issued |-> {}]

\* The record of a DAO or session call of session s that starts now.
DaoCall(s, op) ==
    [NoDaoCall EXCEPT !.session = s, !.op = op, !.pre = sess[s],
                      !.pre_doc = doc, !.pre_oid = index_oid,
                      !.issued = dcall.issued, !.pre_issued = dcall.issued]

\* index_dao_json.cpp:155-176  IndexDaoJson::exists(name), on a session
\* record: for each outcome of load_contents, the answer and the session.
exists_results(session, name) ==
    {[exists |-> l.error = "OK"
                 /\ \E i \in 1..Len(l.session.contents) :
                       l.session.contents[i].name = Some(name),
      error |-> l.error, read |-> l.read, session |-> l.session]
       : l \in load_contents_results(session)}

\* index_dao_json.cpp:155-176  IndexDaoJson::exists(name)
exists(s, name) ==
    /\ \E e \in exists_results(sess[s], name) :
          /\ sess' = [sess EXCEPT ![s] = e.session]
          /\ dcall' = [DaoCall(s, "exists") EXCEPT !.key = "name",
                          !.value = Some(name), !.read = e.read,
                          !.error = e.error, !.result = Some(e.exists)]
    /\ UNCHANGED <<doc, index_oid, oidVars, provVars, extVars>>

\* Variant: the object is pushed to a copy of the root collection that is
\* not put back into the contents.
InsertedContentsCopyOnly(contents, object) == contents

\* index_dao_json.cpp:233-235  the object is pushed to a copy of the root
\* collection, which then replaces the root collection of the contents.
InsertedContents(contents, object) == Append(contents, object)

\* Variant: the insert writes the contents through to the backing document.
DocumentAfterInsertWritten(document, contents) ==
    [exists |-> TRUE, indexes |-> contents]

\* index_dao_json.cpp:230-236  the insert changes the tree in memory only;
\* the backing document is not written.
DocumentAfterInsert(document, contents) == document

\* index_dao_json.cpp:204-237  IndexDaoJson::insert(object, object_id), for
\* the outcomes of the id generator given.
insert_generated(s, object, generated) ==
    /\ index_oid < MaxIndexId
    /\ \E e \in (IF Has(object.name)
                 THEN exists_results(sess[s], Val(object.name))
                 ELSE {[exists |-> FALSE, error |-> "OK", read |-> FALSE,
                        session |-> sess[s]]}) :
          IF e.exists
          THEN /\ sess' = [sess EXCEPT ![s] = e.session]
               /\ dcall' = [DaoCall(s, "insert") EXCEPT
                               !.object = Some(object), !.read = e.read,
                               !.error = "ALREADY_EXISTS"]
               /\ UNCHANGED <<doc, index_oid>>
          ELSE \E l \in load_contents_results(e.session) :
                  IF l.error # "OK"
                  THEN /\ sess' = [sess EXCEPT ![s] = l.session]
                       /\ dcall' = [DaoCall(s, "insert") EXCEPT
                                       !.object = Some(object),
                                       !.read = e.read \/ l.read,
                                       !.error = l.error]
                       /\ UNCHANGED <<doc, index_oid>>
                  ELSE \E g \in generated :
                          LET temp_obj ==
                                [object EXCEPT !.format_version = Some(1),
                                               !.generation = Some(1),
                                               !.id = Some(g.id)]
                          IN /\ sess' = [sess EXCEPT ![s] =
                                   [l.session EXCEPT
                                      !.contents =
                                          InsertedContents(@, temp_obj),
                                      !.fresh = Append(@, temp_obj)]]
                             /\ index_oid' = g.oid
                             /\ doc' = DocumentAfterInsert(doc,
                                          sess'[s].contents)
                             /\ dcall' = [DaoCall(s, "insert") EXCEPT
                                             !.object = Some(object),
                                             !.read = e.read \/ l.read,
                                             !.error = "OK",
                                             !.result = Some(temp_obj),
                                             !.object_id = Some(g.id),
                                             !.issued = @ \cup {g.id}]
    /\ Len(sess'[s].contents) <= MaxObjects
    /\ UNCHANGED <<oidVars, provVars, extVars>>

\* index_dao_json.cpp:204-237  IndexDaoJson::insert(object, object_id) when
\* the id generator works.
insert(s, object) == insert_generated(s, object, oid_generate_results)

\* index_dao_json.cpp:204-237  IndexDaoJson::insert(object, object_id) when
\* the id generator fails: the value it returns is not examined.
insert_generate_fail(s, object) ==
    insert_generated(s, object, oid_generate_failures)

\* index_dao_json.cpp:246-262  IndexDaoJson::select(key, value, object)
select(s, key, value) ==
    /\ \E l \in load_contents_results(sess[s]) :
          LET found == find_metadata_object(l.session.contents, key, value)
          IN /\ sess' = [sess EXCEPT ![s] = l.session]
             /\ dcall' = [DaoCall(s, "select") EXCEPT !.key = key,
                             !.value = Some(value), !.read = l.read,
                             !.error =
                                IF l.error # "OK" THEN l.error
                                ELSE IF found.error = "NOT_FOUND"
                                THEN get_not_found_error_code(key)
                                ELSE found.error,
                             !.result = IF l.error # "OK" THEN None
                                        ELSE found.object]
    /\ UNCHANGED <<doc, index_oid, oidVars, provVars, extVars>>

\* index_dao_json.cpp:270-284  IndexDaoJson::select_all(objects)
select_all(s) ==
    /\ \E l \in load_contents_results(sess[s]) :
          /\ sess' = [sess EXCEPT ![s] = l.session]
          /\ dcall' = [DaoCall(s, "select_all") EXCEPT !.read = l.read,
                          !.error = l.error,
                          !.result = IF l.error # "OK" THEN None
                                     ELSE Some(l.session.contents)]
    /\ UNCHANGED <<doc, index_oid, oidVars, provVars, extVars>>

\* The value a stamp of the replaced object has when it is absent.
INVALID_VALUE == -1
INVALID_OBJECT_ID == -1

Stamp(o, default) == IF Has(o) THEN o ELSE Some(default)

\* index_dao_json.cpp:294-332  IndexDaoJson::update(key, value, object): the
\* object found is removed, and the replacing object is appended with the
\* stamps of the object found, or with the invalid values when none was
\* found; the result of the search is returned.
update(s, key, value, object) ==
    /\ \E l \in load_contents_results(sess[s]) :
          IF l.error # "OK"
          THEN /\ sess' = [sess EXCEPT ![s] = l.session]
               /\ dcall' = [DaoCall(s, "update") EXCEPT !.key = key,
                               !.value = Some(value),
                               !.object = Some(object), !.read = l.read,
                               !.error = l.error]
          ELSE LET found == find_metadata_object(l.session.contents, key,
                                                 value)
                   old == IF Has(found.object) THEN Val(found.object)
                          ELSE [name |-> None, id |-> None,
                                format_version |-> None,
                                generation |-> None, tag |-> "a"]
                   removed == delete_metadata_object(l.session.contents,
                                                     key, value)
                   temp_obj ==
                      [object EXCEPT
                          !.format_version =
                              Stamp(old.format_version, INVALID_VALUE),
                          !.generation = Stamp(old.generation, INVALID_VALUE),
                          !.id = Stamp(old.id, INVALID_OBJECT_ID)]
               IN /\ sess' = [sess EXCEPT ![s] =
                        [l.session EXCEPT
                           !.contents = Append(removed.objects, temp_obj),
                           !.fresh = IF removed.error = "OK"
                                     THEN WithoutId(@, removed.object_id)
                                     ELSE @]]
                  /\ dcall' = [DaoCall(s, "update") EXCEPT !.key = key,
                                  !.value = Some(value),
                                  !.object = Some(object), !.read = l.read,
                                  !.error =
                                     IF found.error = "NOT_FOUND"
                                     THEN get_not_found_error_code(key)
                                     ELSE found.error,
                                  !.result = Some(temp_obj)]
    /\ Len(sess'[s].contents) <= MaxObjects
    /\ UNCHANGED <<doc, index_oid, oidVars, provVars, extVars>>

\* index_dao_json.cpp:341-356  IndexDaoJson::remove(key, value, object_id)
remove(s, key, value) ==
    /\ \E l \in load_contents_results(sess[s]) :
          IF l.error # "OK"
          THEN /\ sess' = [sess EXCEPT ![s] = l.session]
               /\ dcall' = [DaoCall(s, "remove") EXCEPT !.key = key,
                               !.value = Some(value), !.read = l.read,
                               !.error = l.error]
          ELSE LET removed == delete_metadata_object(l.session.contents,
                                                     key, value)
               IN /\ sess' = [sess EXCEPT ![s] =
                        [l.session EXCEPT
                           !.contents = removed.objects,
                           !.fresh = IF removed.error = "OK"
                                     THEN WithoutId(@, removed.object_id)
                                     ELSE @]]
                  /\ dcall' = [DaoCall(s, "remove") EXCEPT !.key = key,
                                  !.value = Some(value), !.read = l.read,
                                  !.error = removed.error,
                                  !.object_id = removed.object_id]
    /\ UNCHANGED <<doc, index_oid, oidVars, provVars, extVars>>

\* The error a failed write of the backing document is reported with.
DocumentErrors == {"INTERNAL_ERROR"}

\* DocumentSession::commit: the tree in memory replaces the backing document
\* in one step, or the failure is reported and the document is as before.
commit(s) ==
    /\ sess[s].loaded
    /\ \E r \in {"OK"} \cup DocumentErrors :
          /\ doc' = IF r = "OK"
                    THEN [exists |-> TRUE, indexes |-> sess[s].contents]
                    ELSE doc
          /\ sess' = IF r = "OK" THEN [sess EXCEPT ![s] = Unloaded] ELSE sess
          /\ dcall' = [DaoCall(s, "commit") EXCEPT !.error = r]
    /\ UNCHANGED <<index_oid, oidVars, provVars, extVars>>

\* DocumentSession::rollback: the tree in memory is discarded, nothing is
\* written.
rollback(s) ==
    /\ sess[s].loaded
    /\ sess' = [sess EXCEPT ![s] =
                   [Unloaded EXCEPT !.discarded = sess[s].fresh]]
    /\ dcall' = [DaoCall(s, "rollback") EXCEPT !.error = "OK"]
    /\ UNCHANGED <<doc, index_oid, oidVars, provVars, extVars>>

DocInit ==
    /\ doc = [exists |-> FALSE, indexes |-> <<>>]
    /\ sess = [s \in Sessions |-> Unloaded]
    /\ index_oid = 0
    /\ dcall = NoDaoCall

(***************************************************************************)
(* Part IV.  Metadata: load, add and save of a JSON metadata file          *)
(*                                                                         *)
(* Metadata::load and Metadata::save are modelled from mock/metadata.cpp:  *)
(* load reads the file <tablename>.json with read_json, save writes the    *)
(* tree in memory to that same file with write_json.  The text of the file *)
(* is a sequence of tokens: the opening of the root collection, one token  *)
(* per object, and the closing of the root collection.                     *)
(***************************************************************************)

\* Names of the objects handed to Metadata::add.
MetadataNames == {"m1", "m2"}

\* Object ids after which no further Metadata::add is started.
MaxMetadataId == 2

Token(kind, object) == [kind |-> kind, object |-> object]

\* write_json(filename, pt): the text of a tree.
write_json(root) ==
    <<Token("open", None)>>
    \o [i \in 1..Len(root) |-> Token("object", Some(root[i]))]
    \o <<Token("close", None)>>

\* The text is the complete text of some tree.
WellFormed(text) ==
    /\ Len(text) >= 2
    /\ text[1].kind = "open"
    /\ text[Len(text)].kind = "close"
    /\ \A i \in 2..(Len(text) - 1) : text[i].kind = "object"

\* read_json(filename, pt): the tree of a well-formed text.
read_json(text) == [i \in 1..(Len(text) - 2) |-> Val(text[i + 1].object)]

\* The metadata file as installed: an empty root collection.
InstalledFile == [exists |-> TRUE, text |-> write_json(<<>>)]

\* metadata.cpp:72  what a write_json that throws can leave behind.
\* write_json(filename, pt) opens the file with std::ofstream, which
\* truncates it, and throws either because the file could not be opened (the
\* file is as before) or because the stream failed while the text was
\* written (the file holds a proper prefix of the text, possibly nothing).
FailedSaveFiles(old, root) ==
    {old} \cup
    {[exists |-> TRUE, text |-> SubSeq(write_json(root), 1, n)] :
        n \in 0..(Len(write_json(root)) - 1)}

\* metadata.cpp:65-84  Metadata::save(database, tablename, pt, generation):
\* the result code and the file afterwards.
save_results(old, root) ==
    {[error |-> "OK", file |-> [exists |-> TRUE, text |-> write_json(root)]]}
    \cup {[error |-> "UNKNOWN", file |-> f] : f \in FailedSaveFiles(old, root)}

\* The record of the most recent call.  cursor tells what has been done with
\* the cursor of Metadata::next since the construction: "new" (nothing),
\* "fresh" (the collection has been loaded once and next was only called
\* after that), "stale" (anything else); nexts are the results of the calls
\* of next so far.
NoMetadataCall ==
    [op |-> "none", error |-> "NONE", saved |-> "NONE",
     pre_file |-> InstalledFile, pre_root |-> <<>>,
     object |-> None, cursor |-> "new", nexts |-> <<>>]

MetadataCall(op) ==
    [NoMetadataCall EXCEPT !.op = op, !.pre_file = file,
                           !.pre_root = metadata_.root,
                           !.cursor = mcall.cursor, !.nexts = mcall.nexts]

\* metadata.cpp:39-56, 90-103  Metadata::load(): read_json into metadata_;
\* a file that is missing or not well-formed makes read_json throw, which is
\* reported as UNKNOWN and leaves metadata_ as it was.
Metadata_load ==
    /\ IF file.exists /\ WellFormed(file.text)
       THEN /\ metadata_' = [metadata_ EXCEPT !.loaded = TRUE,
                                       !.root = read_json(file.text)]
            /\ mcall' = [MetadataCall("load") EXCEPT !.error = "OK",
                            !.cursor = IF @ = "new" THEN "fresh" ELSE "stale"]
       ELSE /\ UNCHANGED metadata_
            /\ mcall' = [MetadataCall("load") EXCEPT !.error = "UNKNOWN"]
    /\ UNCHANGED <<file, oidVars, provVars, docVars, statVars, codecVars>>

\* metadata.cpp:65-84  Metadata::save of the tree in memory.
Metadata_save ==
    /\ metadata_.loaded
    /\ \E r \in save_results(file, metadata_.root) :
          /\ file' = r.file
          /\ mcall' = [MetadataCall("save") EXCEPT !.error = r.error,
                                                   !.saved = r.error]
    /\ UNCHANGED <<metadata_, oidVars, provVars, docVars, statVars, codecVars>>

\* fill_parameters of the metadata class (not in the sources at hand).
metadata_fill_parameters_results == {"OK", "INVALID_PARAMETER"}

\* metadata.cpp:121-150  Metadata::add(object, object_id): the object is
\* stamped with the format version and a new id, pushed to the root
\* collection of metadata_, and the tree is saved; the result of the save
\* is not looked at.  Without a loaded tree get_child(root_node()) throws.
Metadata_add(name) ==
    /\ metadata_.last_id < MaxMetadataId
    /\ LET new_id == metadata_.last_id + 1
           object == [name |-> name, id |-> new_id, format_version |-> 1]
       IN \E e \in metadata_fill_parameters_results :
             IF e # "OK" \/ ~metadata_.loaded
             THEN /\ metadata_' = [metadata_ EXCEPT !.last_id = new_id]
                  /\ mcall' = [MetadataCall("add") EXCEPT
                                  !.error = IF e # "OK" THEN e
                                            ELSE "ptree_bad_path"]
                  /\ UNCHANGED file
             ELSE \E r \in save_results(file, Append(metadata_.root, object)) :
                     /\ metadata_' = [metadata_ EXCEPT
                                         !.root = Append(@, object),
                                         !.last_id = new_id]
                     /\ file' = r.file
                     /\ mcall' = [MetadataCall("add") EXCEPT !.error = "OK",
                                                             !.saved = r.error]
    /\ UNCHANGED <<oidVars, provVars, docVars, statVars, codecVars>>

\* Calls of Metadata::next after which no further one is started.
MaxNextCalls == 5

\* metadata.cpp:222-227  the queue the call reads from: the rest of a queue
\* that is not empty, the objects of the root collection otherwise.
NextQueue(queue, root) == IF queue # <<>> THEN Tail(queue) ELSE root

\* metadata.cpp:226  metadata_.front() of a tree that was never loaded has
\* no defined result: the call ends abnormally, or goes on with a queue that
\* is empty or holds whatever the memory read holds.
UndefinedQueues ==
    {<<>>, <<[name |-> "?", id |-> 0, format_version |-> 0]>>}

\* metadata.cpp:218-236  Metadata::next(object): the queue of the cursor
\* advances, and its first object is returned; END_OF_ROW when it is empty.
Metadata_next ==
    /\ Len(mcall.nexts) < MaxNextCalls
    /\ \/ /\ ~metadata_.loaded /\ metadata_.object_queue_ = <<>>
          /\ UNCHANGED metadata_
          /\ mcall' = [MetadataCall("next") EXCEPT !.error = "SIGSEGV",
                          !.cursor = "stale",
                          !.nexts = Append(@, [error |-> "SIGSEGV",
                                               object |-> None])]
       \/ \E queue \in
               (IF ~metadata_.loaded /\ metadata_.object_queue_ = <<>>
                THEN UndefinedQueues
                ELSE {NextQueue(metadata_.object_queue_, metadata_.root)}) :
             LET error == IF queue # <<>> THEN "OK" ELSE "END_OF_ROW"
                 object == IF queue # <<>> THEN Some(Head(queue)) ELSE None
             IN /\ metadata_' = [metadata_ EXCEPT !.object_queue_ = queue]
                /\ mcall' = [MetadataCall("next") EXCEPT !.error = error,
                                !.object = object,
                                !.cursor = IF @ = "fresh" THEN @ ELSE "stale",
                                !.nexts = Append(@, [error |-> error,
                                                     object |-> object])]
    /\ UNCHANGED <<file, oidVars, provVars, docVars, statVars, codecVars>>

MetaInit ==
    /\ file = InstalledFile
    /\ metadata_ = [loaded |-> FALSE, root |-> <<>>, last_id |-> 0,
                    object_queue_ |-> <<>>]
    /\ mcall = NoMetadataCall

(***************************************************************************)
(* Part V.  StatisticsDAO: the writes of the column statistics table       *)
(*                                                                         *)
(* The DAO is modelled from dao/postgresql/statistics_dao.cpp, the         *)
(* statements it executes from their SQL text in that file.  A row of the  *)
(* table is [table_id, ordinal_position, column_statistic].                *)
(***************************************************************************)

\* The table ids and ordinal positions the DAO is called with.
StatTableIds == {1, 2}
StatPositions == {1, 2}

\* The payloads handed to the upsert; the empty one is bound as NULL.
StatPayloads == {"", "s1", "s2"}

\* statistics_dao.cpp:227-231  the third parameter of the upsert.
BoundStatistic(column_statistic) ==
    IF column_statistic = "" THEN None ELSE Some(column_statistic)

StatRow(table_id, ordinal_position, column_statistic) ==
    [table_id |-> table_id, ordinal_position |-> ordinal_position,
     column_statistic |-> BoundStatistic(column_statistic)]

\* statistics_dao.cpp:119-127  WHERE table_id = $1 AND ordinal_position = $2
RowsOfKey(rows, table_id, ordinal_position) ==
    {r \in rows : r.table_id = table_id
                  /\ r.ordinal_position = ordinal_position}

\* statistics_dao.cpp:103-110  WHERE table_id = $1
RowsOfTable(rows, table_id) == {r \in rows : r.table_id = table_id}

\* Variant: a plain INSERT, without the ON CONFLICT clause and the
\* uniqueness of the key it relies on.
UpsertedRowsInserted(rows, table_id, ordinal_position, column_statistic) ==
    rows \cup {StatRow(table_id, ordinal_position, column_statistic)}

\* statistics_dao.cpp:51-63  INSERT ... ON CONFLICT (table_id,
\* ordinal_position) DO UPDATE SET ...: the rows afterwards.
UpsertedRows(rows, table_id, ordinal_position, column_statistic) ==
    (rows \ RowsOfKey(rows, table_id, ordinal_position))
    \cup {StatRow(table_id, ordinal_position, column_statistic)}

\* Variant: the number of affected rows is not looked at.
AffectedOneUnchecked(number_of_rows_affected) == TRUE

\* statistics_dao.cpp:250, 434  number_of_rows_affected != 1 is an error.
AffectedOne(number_of_rows_affected) == number_of_rows_affected = 1

\* statistics_dao.cpp:391  number_of_rows_affected <= 0 is an error.
AffectedSome(number_of_rows_affected) == ~(number_of_rows_affected <= 0)

StatKeys == StatTableIds \X StatPositions

NoStatCall ==
    [op |-> "none", table_id |-> 0, ordinal_position |-> 0,
     column_statistic |-> "", error |-> "UNKNOWN", executed |-> FALSE,
     affected |-> 0, pre |-> {}, result |-> None,
     latest |-> [k \in StatKeys |-> None]]

\* The record of a DAO call that starts now.
StatCall(op, table_id, ordinal_position) ==
    [NoStatCall EXCEPT !.op = op, !.table_id = table_id,
                       !.ordinal_position = ordinal_position,
                       !.pre = column_statistics, !.latest = scall.latest]

\* The outcomes of a write statement that would leave the rows given and
\* affect the number of rows given: DbcUtils::exec_prepared fails and the
\* table is as before; or the statement is executed and
\* DbcUtils::get_number_of_rows_affected fails; or the statement is executed
\* and the number of affected rows is checked.
write_results(rows, affected, expected) ==
    {[error |-> e, executed |-> FALSE, rows |-> column_statistics,
      affected |-> 0] : e \in BackendErrors}
    \cup {[error |-> e, executed |-> TRUE, rows |-> rows,
           affected |-> affected] : e \in BackendErrors}
    \cup {[error |-> IF expected THEN "OK" ELSE "INVALID_PARAMETER",
           executed |-> TRUE, rows |-> rows, affected |-> affected]}

\* statistics_dao.cpp:217-260  StatisticsDAO::
\* upsert_one_column_statistic_by_table_id_column_ordinal_position
upsert_one_column_statistic_by_table_id_column_ordinal_position(table_id, ordinal_position, column_statistic) ==
    /\ \E r \in write_results(
                 UpsertedRows(column_statistics, table_id, ordinal_position,
                              column_statistic),
                 1, AffectedOne(1)) :
          /\ column_statistics' = r.rows
          /\ scall' = [StatCall("upsert_one", table_id, ordinal_position)
                          EXCEPT !.column_statistic = column_statistic,
                                 !.error = r.error,
                                 !.executed = r.executed,
                                 !.affected = r.affected,
                                 !.latest =
                                    IF r.executed
                                    THEN [@ EXCEPT
                                           ![<<table_id, ordinal_position>>] =
                                              Some(StatRow(table_id,
                                                     ordinal_position,
                                                     column_statistic))]
                                    ELSE @]
    /\ UNCHANGED <<oidVars, provVars, docVars, metaVars, codecVars>>

\* statistics_dao.cpp:409-444  StatisticsDAO::
\* delete_one_column_statistic_by_table_id_column_ordinal_position
delete_one_column_statistic_by_table_id_column_ordinal_position(table_id, ordinal_position) ==
    /\ LET hit == RowsOfKey(column_statistics, table_id, ordinal_position)
       IN \E r \in write_results(column_statistics \ hit, Cardinality(hit),
                                 AffectedOne(Cardinality(hit))) :
             /\ column_statistics' = r.rows
             /\ scall' = [StatCall("delete_one", table_id, ordinal_position)
                             EXCEPT !.error = r.error,
                                    !.executed = r.executed,
                                    !.affected = r.affected,
                                    !.latest =
                                       IF r.executed
                                       THEN [@ EXCEPT
                                              ![<<table_id,
                                                  ordinal_position>>] = None]
                                       ELSE @]
    /\ UNCHANGED <<oidVars, provVars, docVars, metaVars, codecVars>>

\* statistics_dao.cpp:367-399  StatisticsDAO::
\* delete_all_column_statistic_by_table_id
delete_all_column_statistic_by_table_id(table_id) ==
    /\ LET hit == RowsOfTable(column_statistics, table_id)
       IN \E r \in write_results(column_statistics \ hit, Cardinality(hit),
                                 AffectedSome(Cardinality(hit))) :
             /\ column_statistics' = r.rows
             /\ scall' = [StatCall("delete_all", table_id, 0)
                             EXCEPT !.error = r.error,
                                    !.executed = r.executed,
                                    !.affected = r.affected,
                                    !.latest =
                                       IF r.executed
                                       THEN [k \in StatKeys |->
                                               IF k[1] = table_id THEN None
                                               ELSE @[k]]
                                       ELSE @]
    /\ UNCHANGED <<oidVars, provVars, docVars, metaVars, codecVars>>

\* statistics_dao.cpp:458-499  get_column_statistic_from_p_gresult: the
\* ColumnStatistic of a row of the result; the payload of a row whose
\* column_statistic is NULL is read as the empty text and left empty.
get_column_statistic_from_p_gresult(row) ==
    [table_id |-> row.table_id, ordinal_position |-> row.ordinal_position,
     column_statistic |-> IF Has(row.column_statistic)
                          THEN Val(row.column_statistic) ELSE ""]

\* Variant: a result without rows is taken as well; the values read from a
\* row that is not there are empty.
OneRowAtMost(nrows) == nrows <= 1

\* statistics_dao.cpp:294  if (nrows == 1)
OneRow(nrows) == nrows = 1

\* The row of a result of one row at most, as libpq hands it out: PQgetvalue
\* of a row that is not there gives no value.
RowRead(rows, table_id, ordinal_position) ==
    IF rows = {}
    THEN [table_id |-> 0, ordinal_position |-> 0, column_statistic |-> None]
    ELSE CHOOSE r \in rows : TRUE

\* statistics_dao.cpp:272-306  StatisticsDAO::
\* select_one_column_statistic_by_table_id_column_ordinal_position
select_one_column_statistic_by_table_id_column_ordinal_position(table_id, ordinal_position) ==
    /\ LET hit == RowsOfKey(column_statistics, table_id, ordinal_position)
           started == StatCall("select_one", table_id, ordinal_position)
       IN \/ \E e \in BackendErrors : scall' = [started EXCEPT !.error = e]
          \/ scall' =
                IF OneRow(Cardinality(hit))
                THEN [started EXCEPT !.executed = TRUE, !.error = "OK",
                         !.result =
                            Some(get_column_statistic_from_p_gresult(
                                    RowRead(hit, table_id, ordinal_position)))]
                ELSE [started EXCEPT !.executed = TRUE,
                                  !.error = "INVALID_PARAMETER"]
    /\ UNCHANGED <<column_statistics, oidVars, provVars, docVars, metaVars, codecVars>>

\* statistics_dao.cpp:340-354  the map built from the rows of the result,
\* keyed by the ordinal position each row carries.
StatisticsByOrdinal(rows) ==
    [o \in {r.ordinal_position : r \in rows} |->
        get_column_statistic_from_p_gresult(
            CHOOSE r \in rows : r.ordinal_position = o)]

\* statistics_dao.cpp:318-359  StatisticsDAO::
\* select_all_column_statistic_by_table_id
select_all_column_statistic_by_table_id(table_id) ==
    /\ LET hit == RowsOfTable(column_statistics, table_id)
           started == StatCall("select_all", table_id, 0)
       IN \/ \E e \in BackendErrors : scall' = [started EXCEPT !.error = e]
          \/ scall' =
                IF Cardinality(hit) <= 0
                THEN [started EXCEPT !.executed = TRUE,
                                  !.error = "INVALID_PARAMETER"]
                ELSE [started EXCEPT !.executed = TRUE, !.error = "OK",
                                  !.result = Some(StatisticsByOrdinal(hit))]
    /\ UNCHANGED <<column_statistics, oidVars, provVars, docVars, metaVars, codecVars>>

StatInit ==
    /\ column_statistics = {}
    /\ scall = NoStatCall

(***************************************************************************)
(* Part VI.  Index: conversion to and from a property tree                 *)
(*                                                                         *)
(* Index::convert_to_ptree and Index::convert_from_ptree are modelled from *)
(* indexes.cpp.  The conversions of the base class Object and the helpers  *)
(* ptree_helper::make_array_ptree and make_vector are not part of the      *)
(* sources at hand and are modelled from section 4.2 of the specification. *)
(* A property tree is the sequence of its children, in insertion order; a  *)
(* child is [key, data, children], its data the text of the value put.     *)
(***************************************************************************)

\* The decimal digits, and texts as sequences of characters.
Digits == <<"0", "1", "2", "3", "4", "5", "6", "7", "8", "9">>

IsDigit(c) == \E d \in 1..Len(Digits) : Digits[d] = c

DigitValue(c) == (CHOOSE d \in 1..Len(Digits) : Digits[d] = c) - 1

RECURSIVE NatText(_)
\* The text of a natural number.
NatText(n) ==
    IF n < Len(Digits) THEN <<Digits[n + 1]>>
    ELSE NatText(n \div Len(Digits)) \o <<Digits[(n % Len(Digits)) + 1]>>

\* ptree::put<int64_t>: the text the value is stored as.
IntText(n) == IF n < 0 THEN <<"-">> \o NatText(-n) ELSE NatText(n)

RECURSIVE NatValue(_)
\* The number a sequence of digits stands for.
NatValue(text) ==
    IF text = <<>> THEN 0
    ELSE NatValue(SubSeq(text, 1, Len(text) - 1)) * Len(Digits)
         + DigitValue(text[Len(text)])

AllDigits(text) ==
    text # <<>> /\ \A i \in 1..Len(text) : IsDigit(text[i])

\* ptree::get_value_optional<int64_t>: the number a text stands for, none
\* when the text is not a number.
ParseInt(text) ==
    IF AllDigits(text) THEN Some(NatValue(text))
    ELSE IF text # <<>> /\ text[1] = "-" /\ AllDigits(Tail(text))
    THEN Some(0 - NatValue(Tail(text)))
    ELSE None

Node(key, data, children) ==
    [key |-> key, data |-> data, children |-> children]

TreeHas(tree, key) == \E i \in 1..Len(tree) : tree[i].key = key

\* ptree::get_child(key): the first child with the key.
TreeChild(tree, key) ==
    tree[CHOOSE i \in 1..Len(tree) :
            tree[i].key = key /\ \A j \in 1..(i - 1) : tree[j].key # key]

\* ptree::put(key, text): replaces the data of the first child with the
\* key, appends a child when there is none.
TreePut(tree, key, text) ==
    IF TreeHas(tree, key)
    THEN [i \in 1..Len(tree) |->
            IF tree[i] = TreeChild(tree, key)
               /\ \A j \in 1..(i - 1) : tree[j].key # key
            THEN Node(key, text, <<>>) ELSE tree[i]]
    ELSE Append(tree, Node(key, text, <<>>))

\* ptree::get_optional<int64_t>(key)
TreeGetInt(tree, key) ==
    IF TreeHas(tree, key) THEN ParseInt(TreeChild(tree, key).data) ELSE None

\* ptree::get_optional<std::string>(key)
TreeGetText(tree, key) ==
    IF TreeHas(tree, key) THEN Some(TreeChild(tree, key).data) ELSE None

\* ptree::erase(key): the tree without its children of the key.
TreeErase(tree, key) == SelectSeq(tree, LAMBDA n : n.key # key)

\* ptree_helper::make_array_ptree(values): one child with an empty key per
\* element, in the order of the elements.
make_array_ptree(values) ==
    [i \in 1..Len(values) |-> Node("", IntText(values[i]), <<>>)]

\* ptree_helper::make_vector(pt, key): the elements of the array under the
\* key, in their order; empty when the key is absent.
make_vector(tree, key) ==
    IF TreeHas(tree, key)
    THEN LET array == TreeChild(tree, key).children
         IN [i \in 1..Len(array) |-> Val(ParseInt(array[i].data))]
    ELSE <<>>

\* The value a field has when its optional is empty.
OrElse(o, default) == IF Has(o) THEN Val(o) ELSE default

\* Object::convert_to_ptree(): the fields of the base class.
Object_convert_to_ptree(object) ==
    TreePut(TreePut(TreePut(TreePut(<<>>,
        "format_version", IntText(object.format_version)),
        "generation", IntText(object.generation)),
        "id", IntText(object.id)),
        "name", object.name)

\* Object::convert_from_ptree(pt): the fields of the base class.
Object_convert_from_ptree(tree) ==
    [format_version |-> OrElse(TreeGetInt(tree, "format_version"),
                               INVALID_VALUE),
     generation |-> OrElse(TreeGetInt(tree, "generation"), INVALID_VALUE),
     id |-> OrElse(TreeGetInt(tree, "id"), INVALID_OBJECT_ID),
     name |-> OrElse(TreeGetText(tree, "name"), <<>>)]

\* The fields Index adds to those of Object.
IndexFields ==
    {"owner_id", "access_method", "number_of_columns",
     "number_of_key_columns", "keys", "keys_id", "options"}

ObjectFields == {"format_version", "generation", "id", "name"}

\* Variant: the array is put as a value, which keeps the key and drops the
\* elements.
EncodedArrayPut(tree, key, values) == TreePut(tree, key, <<>>)

\* indexes.cpp:47-54  pt.push_back(std::make_pair(KEYS, keys)) with keys the
\* array tree of the list.
EncodedArray(tree, key, values) ==
    Append(tree, Node(key, <<>>, make_array_ptree(values)))

\* indexes.cpp:39-57  Index::convert_to_ptree()
Index_convert_to_ptree(i) ==
    LET pt0 == Object_convert_to_ptree(i)
        pt1 == TreePut(pt0, "owner_id", IntText(i.owner_id))
        pt2 == TreePut(pt1, "access_method", IntText(i.access_method))
        pt3 == TreePut(pt2, "number_of_columns",
                       IntText(i.number_of_columns))
        pt4 == TreePut(pt3, "number_of_key_columns",
                       IntText(i.number_of_key_columns))
        pt5 == EncodedArray(pt4, "keys", i.keys)
        pt6 == EncodedArray(pt5, "keys_id", i.keys_id)
    IN EncodedArray(pt6, "options", i.options)

\* Variant: an absent number decodes to zero.
AbsentIntZero(o, default) == IF Has(o) THEN Val(o) ELSE 0

\* indexes.cpp:65-75  opt_int ? opt_int.get() : <sentinel>
AbsentInt(o, default) == IF Has(o) THEN Val(o) ELSE default

\* indexes.cpp:62-80  Index::convert_from_ptree(pt): the record filled.
Index_convert_from_ptree(tree) ==
    LET object == Object_convert_from_ptree(tree)
    IN [format_version |-> object.format_version,
        generation |-> object.generation,
        id |-> object.id,
        name |-> object.name,
        owner_id |-> AbsentInt(TreeGetInt(tree, "owner_id"),
                               INVALID_OBJECT_ID),
        access_method |-> AbsentInt(TreeGetInt(tree, "access_method"),
                                    INVALID_VALUE),
        number_of_columns |-> AbsentInt(TreeGetInt(tree, "number_of_columns"),
                                        INVALID_VALUE),
        number_of_key_columns |->
            AbsentInt(TreeGetInt(tree, "number_of_key_columns"),
                      INVALID_VALUE),
        keys |-> make_vector(tree, "keys"),
        keys_id |-> make_vector(tree, "keys_id"),
        options |-> make_vector(tree, "options")]

\* The numbers, names and lists the Index records under conversion hold.
IndexNumbers == {-1, 0, 12}
IndexTexts == {<<>>, <<"i", "1">>}
IndexLists == {<<>>, <<2, 1>>, <<1, 12, 1>>}

\* The Index records converted: the ids take one number, the other numbers
\* another, and each list is chosen on its own.
Indexes ==
    {[format_version |-> b, generation |-> b, id |-> a, name |-> n,
      owner_id |-> a, access_method |-> b, number_of_columns |-> b,
      number_of_key_columns |-> a, keys |-> k, keys_id |-> ki,
      options |-> o] :
        a \in IndexNumbers, b \in IndexNumbers, n \in IndexTexts,
        k \in IndexLists, ki \in IndexLists, o \in IndexLists}

\* Fields a tree handed to convert_from_ptree lacks at most, short of all.
MaxAbsent == 1

NoTree == [made |-> FALSE, tree |-> <<>>, absent |-> {}]

\* indexes.cpp:39-57  index.convert_to_ptree()
convert_to_ptree ==
    /\ ~index_pt.made
    /\ index_pt' = [made |-> TRUE, tree |-> Index_convert_to_ptree(index),
                    absent |-> {}]
    /\ decoded' = None
    /\ UNCHANGED <<index, oidVars, provVars, docVars, metaVars, statVars>>

\* A caller hands over a tree that lacks a field.
erase(field) ==
    /\ index_pt.made /\ ~Has(decoded)
    /\ field \notin index_pt.absent
    /\ Cardinality(index_pt.absent) < MaxAbsent
    /\ index_pt' = [index_pt EXCEPT !.tree = TreeErase(@, field),
                                    !.absent = @ \cup {field}]
    /\ UNCHANGED <<index, decoded, oidVars, provVars, docVars, metaVars,
                   statVars>>

\* A caller hands over an empty tree.
clear ==
    /\ index_pt.made /\ ~Has(decoded)
    /\ index_pt.absent = {}
    /\ index_pt' = [index_pt EXCEPT !.tree = <<>>,
                                    !.absent = ObjectFields \cup IndexFields]
    /\ UNCHANGED <<index, decoded, oidVars, provVars, docVars, metaVars,
                   statVars>>

\* indexes.cpp:62-80  decoded.convert_from_ptree(pt)
convert_from_ptree ==
    /\ index_pt.made /\ ~Has(decoded)
    /\ decoded' = Some(Index_convert_from_ptree(index_pt.tree))
    /\ UNCHANGED <<index, index_pt, oidVars, provVars, docVars, metaVars,
                   statVars>>

DefaultIndex ==
    [format_version |-> 0, generation |-> 0, id |-> 0, name |-> <<>>,
     owner_id |-> 0, access_method |-> 0, number_of_columns |-> 0,
     number_of_key_columns |-> 0, keys |-> <<>>, keys_id |-> <<>>,
     options |-> <<>>]

CodecInit ==
    /\ index = DefaultIndex
    /\ index_pt = NoTree
    /\ decoded = None

ProvInit ==
    /\ db = EmptyStore
    /\ work = EmptyStore
    /\ txn = "none"
    /\ table_seq = 0
    /\ daos = "none"
    /\ added = [id \in 1..MaxTableId |-> None]
    /\ call = NoOperation

Init == OidInit /\ ProvInit /\ DocInit /\ MetaInit /\ StatInit /\ CodecInit

ProvNext ==
    \/ \E object \in TableObjects : add_table_metadata(object)
    \/ add_start_transaction
    \/ add_insert_table
    \/ add_rollback_table
    \/ add_select_by_name
    \/ add_insert_column
    \/ add_rollback_column
    \/ add_commit

SpecProvider == Init /\ [][ProvNext]_vars

\* The steps of add_table_metadata for well-formed tables.
AddNext ==
    \/ \E object \in ValidTableObjects : add_table_metadata(object)
    \/ add_start_transaction
    \/ add_insert_table
    \/ add_rollback_table
    \/ add_select_by_name
    \/ add_insert_column
    \/ add_rollback_column
    \/ add_commit

GetNext ==
    \/ \E key \in Keys : \E value \in KeyValues(key) :
          get_table_metadata(key, value)
    \/ get_all_table_metadata
    \/ get_all_attach_columns

SetNext ==
    \/ \E object \in StatisticObjects : set_table_statistic(object)
    \/ set_start_transaction
    \/ set_update_reltuples
    \/ set_commit
    \/ set_rollback

RemoveNext ==
    \/ \E key \in Keys : \E value \in KeyValues(key) :
          remove_table_metadata(key, value)
    \/ remove_start_transaction
    \/ remove_delete_table
    \/ remove_delete_columns
    \/ remove_commit
    \/ remove_rollback

GetByIdNext == \E value \in KeyValues("id") : get_table_metadata("id", value)

UpsertNext ==
    \E t \in 1..MaxTableId, o \in StatOrdinals, s \in Payloads :
       upsert_one_column_statistic(t, o, s)

\* Tables are added and read.
SpecTables == Init /\ [][AddNext \/ GetNext]_vars

\* Tables are added, given column statistics, removed and read.
SpecRemove == Init /\ [][AddNext \/ RemoveNext \/ UpsertNext \/ GetByIdNext]_vars

\* Tables are added and given a tuple count.
SpecStatistic == Init /\ [][AddNext \/ SetNext]_vars

\* The operations that run in a transaction.
SpecTransactions == Init /\ [][AddNext \/ SetNext \/ RemoveNext]_vars

\* Callers serialised by external mutual exclusion (spec section 5).
OidNext ==
    \/ \E p \in Procs : ObjectId_init(p, TRUE)
    \/ \E p \in Procs, n \in OidNames : generate_read_fail(p, n, TRUE)
    \/ \E p \in Procs, n \in OidNames : generate_read(p, n, TRUE)
    \/ \E p \in Procs : generate_write(p)
    \/ \E p \in Procs : generate_write_fail(p)
    \/ Restart

SpecObjectId == Init /\ [][OidNext]_vars

\* Processes calling generate with no mutual exclusion.
OidNextConc ==
    \/ \E p \in Procs : ObjectId_init(p, FALSE)
    \/ \E p \in Procs, n \in OidNames : generate_read_fail(p, n, FALSE)
    \/ \E p \in Procs, n \in OidNames : generate_read(p, n, FALSE)
    \/ \E p \in Procs : generate_write(p)
    \/ \E p \in Procs : generate_write_fail(p)

SpecObjectIdConc == Init /\ [][OidNextConc]_vars

\* The calls one session can make.
DocumentStep(s) ==
    \/ \E n \in IndexNames : exists(s, n)
    \/ \E object \in InsertObjects : insert(s, object)
    \/ \E key \in {"id", "name"} : \E value \in IndexValues(key) :
          select(s, key, value)
    \/ select_all(s)
    \/ \E key \in {"id", "name"} : \E value \in IndexValues(key) :
          \E object \in UpdateObjects : update(s, key, value, object)
    \/ \E key \in IndexKeys : \E value \in IndexValues(key) :
          remove(s, key, value)
    \/ commit(s)
    \/ rollback(s)

\* One session works on the document.
DocumentNext == DocumentStep("s1")

SpecDocument == Init /\ [][DocumentNext]_vars

\* Two sessions, as of two processes, that insert into the same document.
RaceNext ==
    \E s \in Sessions :
       \/ \E object \in InsertObjects : insert(s, object)
       \/ select_all(s)
       \/ commit(s)

SpecDocumentRace == Init /\ [][RaceNext]_vars

\* One session that inserts and updates, with every key update accepts.
UpdateNext ==
    \/ \E object \in InsertObjects : insert("s1", object)
    \/ \E key \in UpdateKeys : \E value \in IndexValues(key) :
          \E object \in UpdateObjects : update("s1", key, value, object)
    \/ select_all("s1")
    \/ commit("s1")
    \/ rollback("s1")

SpecDocumentUpdate == Init /\ [][UpdateNext]_vars

\* One session that inserts, with an id generator that can fail.
InsertNext ==
    \/ \E object \in InsertObjects : insert("s1", object)
    \/ \E object \in InsertObjects : insert_generate_fail("s1", object)
    \/ select_all("s1")
    \/ commit("s1")
    \/ rollback("s1")

SpecDocumentInsert == Init /\ [][InsertNext]_vars

\* The objects a stored document can hold: written by this program or by
\* another one, with or without a name and an id.
StoredObjects ==
    [name : {None} \cup {Some(n) : n \in IndexNames},
     id : {None} \cup {Some(i) : i \in 1..MaxIndexId},
     format_version : {Some(1)}, generation : {Some(1)}, tag : {"a"}]

\* Objects of a stored document at most.
MaxStored == 3

StoredDocuments ==
    UNION {[1..n -> StoredObjects] : n \in 0..MaxStored}

\* A session that starts on a document that exists already.
StoredInit ==
    /\ OidInit /\ ProvInit /\ MetaInit /\ StatInit /\ CodecInit
    /\ \E indexes \in StoredDocuments :
          doc = [exists |-> TRUE, indexes |-> indexes]
    /\ sess = [s \in Sessions |-> Unloaded]
    /\ index_oid = MaxIndexId
    /\ dcall = NoDaoCall

\* One session that removes objects of a stored document.
StoredNext ==
    \/ \E key \in IndexKeys : \E value \in IndexValues(key) :
          remove("s1", key, value)
    \/ select_all("s1")
    \/ commit("s1")
    \/ rollback("s1")

SpecDocumentRemove == StoredInit /\ [][StoredNext]_vars

MetadataNext ==
    \/ Metadata_load
    \/ Metadata_save
    \/ \E name \in MetadataNames : Metadata_add(name)

SpecMetadata == Init /\ [][MetadataNext]_vars

\* The collections a stored metadata file can hold.
StoredRoots ==
    UNION {{[i \in 1..n |-> [name |-> names[i], id |-> i,
                              format_version |-> 1]] :
              names \in [1..n -> MetadataNames]} : n \in 0..MaxMetadataId + 1}

\* A Metadata object constructed on a metadata file that exists already.
CursorInit ==
    /\ OidInit /\ ProvInit /\ DocInit /\ StatInit /\ CodecInit
    /\ \E root \in StoredRoots :
          file = [exists |-> TRUE, text |-> write_json(root)]
    /\ metadata_ = [loaded |-> FALSE, root |-> <<>>, last_id |-> 0,
                    object_queue_ |-> <<>>]
    /\ mcall = NoMetadataCall

\* The collection is loaded and read with the cursor.
CursorNext ==
    \/ Metadata_load
    \/ Metadata_next

SpecMetadataCursor == CursorInit /\ [][CursorNext]_vars

StatisticsNext ==
    \/ \E table_id \in StatTableIds : \E ordinal_position \in StatPositions :
          \E column_statistic \in StatPayloads :
             upsert_one_column_statistic_by_table_id_column_ordinal_position(
                 table_id, ordinal_position, column_statistic)
    \/ \E table_id \in StatTableIds : \E ordinal_position \in StatPositions :
          delete_one_column_statistic_by_table_id_column_ordinal_position(
              table_id, ordinal_position)
    \/ \E table_id \in StatTableIds :
          delete_all_column_statistic_by_table_id(table_id)

SpecStatisticsDao == Init /\ [][StatisticsNext]_vars

\* The writes and the reads of the column statistics table.
StatisticsReadNext ==
    \/ StatisticsNext
    \/ \E table_id \in StatTableIds : \E ordinal_position \in StatPositions :
          select_one_column_statistic_by_table_id_column_ordinal_position(
              table_id, ordinal_position)
    \/ \E table_id \in StatTableIds :
          select_all_column_statistic_by_table_id(table_id)

SpecStatisticsRead == Init /\ [][StatisticsReadNext]_vars

CodecNext ==
    \/ convert_to_ptree
    \/ \E field \in ObjectFields \cup IndexFields : erase(field)
    \/ clear
    \/ convert_from_ptree

\* The conversions start from any of the Index records.
CodecSpecInit ==
    /\ OidInit /\ ProvInit /\ DocInit /\ MetaInit /\ StatInit
    /\ index \in Indexes
    /\ index_pt = NoTree
    /\ decoded = None

SpecCodec == CodecSpecInit /\ [][CodecNext]_vars

(***************************************************************************)
(* Claims about ObjectId::generate.                                        *)
(***************************************************************************)
\* The persisted counter of a name in a given file content (0: no entry).
PersistedIn(f, k) == IF f.exists /\ PtHas(f.pt, k) THEN PtGet(f.pt, k) ELSE 0

\* C1: for every name the ids returned by successive successful calls of
\* generate(name) are strictly increasing, so no id is issued twice.
C1_StrictlyIncreasing ==
    \A n \in OidNames : \A i, j \in 1..Len(issued[n]) :
        i < j => issued[n][i].id < issued[n][j].id

\* C2: the first successful generate(name) for a name without an entry in
\* the counter file returns 1, and every later successful call for the name
\* returns the previously returned value plus 1.
C2_FirstOneThenPlusOne ==
    /\ (last.kind = "ok" /\ ~PtHas(last.pre.pt, last.name)) => last.id = 1
    /\ \A n \in OidNames :
          /\ Len(issued[n]) >= 1 => issued[n][1].id = 1
          /\ \A i \in 2..Len(issued[n]) :
                issued[n][i].id = issued[n][i-1].id + 1

\* C3: when generate(name) returns a valid id v the persisted counter of
\* name is v, and the next successful generate(name) after a restart returns
\* v+1 and no value returned before.
C3_DurableAcrossRestart ==
    /\ last.kind = "ok" => Persisted(last.name) = last.id
    /\ \A n \in OidNames : \A i \in 2..Len(issued[n]) :
          issued[n][i].epoch > issued[n][i-1].epoch =>
             /\ issued[n][i].id = issued[n][i-1].id + 1
             /\ \A j \in 1..(i-1) : issued[n][j].id # issued[n][i].id

\* C4: when reading or writing the counter file fails, generate returns the
\* invalid id 0 and every persisted counter is as it was before the call.
C4_FailureLeavesCounters ==
    last.kind \in {"read_error", "write_error"} =>
       /\ last.id = INVALID_OID
       /\ \A n \in OidNames : Persisted(n) = PersistedIn(last.pre, n)

\* C5: generate(a) leaves the persisted counter of every other name b
\* unchanged.
C5_OtherCountersUnchanged ==
    last.kind # "none" =>
       \A b \in OidNames \ {last.name} :
           Persisted(b) = PersistedIn(last.pre, b)

\* C6: generate is a read-modify-write that is not atomic: the id a call
\* returns and persists is the counter it read plus one, whatever other
\* processes wrote to the file between its read and its write; so without
\* mutual exclusion two calls that read the same counter return the same id.
C6_ReturnComputedFromRead ==
    /\ last.kind = "ok" =>
          /\ last.id = ReadOid(last.pre.pt, last.name) + 1
          /\ Persisted(last.name) = last.id
    /\ \A p, q \in Procs :
          (/\ gen[p].pc = "write" /\ gen[q].pc = "write"
           /\ gen[p].name = gen[q].name
           /\ ReadOid(gen[p].pre.pt, gen[p].name)
                 = ReadOid(gen[q].pre.pt, gen[q].name))
          => ReturnedOid(p) = ReturnedOid(q)

\* C6 witness: two successful calls returned the same id for the same name,
\* the later one although the file had been written since it read it.
C6_Witness ==
    \E n \in OidNames : \E i, j \in 1..Len(issued[n]) :
        /\ i < j
        /\ issued[n][i].id = issued[n][j].id
        /\ issued[n][j].stale
        /\ ~issued[n][i].stale

(***************************************************************************)
(* Claims about TablesProvider::add_table_metadata.                        *)
(***************************************************************************)
LogHas(x) == \E k \in 1..Len(call.log) : call.log[k] = x

AddDone == call.op = "add_table_metadata" /\ call.pc = "done"

\* The call ended after a column insert failed (the table row was inserted).
ColumnInsertFailed ==
    AddDone /\ call.dao_error # "OK" /\ LogHas("insert_one_column_metadata")

\* The call ended after the table insert failed.
TableInsertFailed ==
    AddDone /\ call.dao_error # "OK" /\ ~LogHas("insert_one_column_metadata")

\* Nothing of the table the call tried to add is in the repository.
NothingPersisted ==
    /\ db = call.pre
    /\ \A k \in 1..Len(db.tables) : db.tables[k].id # call.table_id
    /\ \A k \in 1..Len(db.columns) : db.columns[k].table_id # call.table_id

\* C7 as stated: when the insert of a column fails after the table row was
\* inserted, neither the table row nor any of its columns is persisted and
\* the call returns the column DAO's error.
C7_ColumnFailureReturnsDaoError ==
    ColumnInsertFailed => NothingPersisted /\ call.error = call.dao_error

\* C7 amended: when the insert of a column fails after the table row was
\* inserted, neither the table row nor any of its columns is persisted; the
\* call returns the column DAO's error when the rollback succeeds and the
\* rollback's error when the rollback fails.
C7_ColumnFailureRolledBack ==
    ColumnInsertFailed =>
       /\ NothingPersisted
       /\ call.log[Len(call.log)] = "rollback"
       /\ ~LogHas("commit")
       /\ call.error = IF call.rollback_result = "OK" THEN call.dao_error
                       ELSE call.rollback_result

\* C7 witness: the second of three column inserts failed, the rollback
\* succeeded and the column DAO's error was returned.
C7_Witness ==
    /\ ColumnInsertFailed
    /\ Len(Val(call.object.columns)) = 3 /\ call.i = 2
    /\ call.rollback_result = "OK"
    /\ call.error = call.dao_error
    /\ db = call.pre

\* The call reached the table insert for a name the repository held.
DuplicateAttempted ==
    /\ AddDone
    /\ Has(call.object.name)
    /\ NameStored(call.pre, Val(call.object.name))
    /\ LogHas("insert_table_metadata")

\* C8 as stated: add_table_metadata for a table whose name is already stored
\* returns TABLE_NAME_ALREADY_EXISTS and leaves the stored tables and columns
\* as they were.
C8_DuplicateAlwaysAlreadyExists ==
    DuplicateAttempted =>
       call.error = "TABLE_NAME_ALREADY_EXISTS" /\ db = call.pre

\* C8 amended: add_table_metadata for a table whose name is already stored
\* never succeeds and leaves the stored tables and columns as they were; once
\* the insert was attempted it returns TABLE_NAME_ALREADY_EXISTS when the
\* rollback and the read by name succeed, the rollback's error when the
\* rollback fails and the insert's error when the read by name fails.
C8_DuplicateName ==
    (/\ AddDone /\ Has(call.object.name)
     /\ NameStored(call.pre, Val(call.object.name)))
    => /\ db = call.pre
       /\ call.error # "OK"
       /\ DuplicateAttempted =>
             /\ call.dao_error # "OK"
             /\ call.error =
                  IF call.rollback_result # "OK" THEN call.rollback_result
                  ELSE IF Val(call.rselect).error = "OK"
                       THEN "TABLE_NAME_ALREADY_EXISTS"
                       ELSE call.dao_error

\* C8 witness: a table with columns was added under a stored name and the
\* call returned TABLE_NAME_ALREADY_EXISTS with the repository unchanged.
C8_Witness ==
    /\ DuplicateAttempted
    /\ Len(Val(call.object.columns)) > 0
    /\ call.error = "TABLE_NAME_ALREADY_EXISTS"
    /\ db = call.pre /\ Len(db.tables) = 1

\* C9 as stated: when the table insert fails the provider rolls back and
\* then reads the table by name; the result is already-exists exactly when
\* the read finds a row of that name carrying an id, and the insert's error
\* otherwise.
C9_ReadAlwaysFollowsRollback ==
    TableInsertFailed =>
       /\ Has(call.rselect)
       /\ call.log = <<"init", "fill_parameters", "start_transaction",
                       "insert_table_metadata", "rollback",
                       "select_table_metadata">>
       /\ call.error =
            IF /\ Val(call.rselect).error = "OK"
               /\ Has(Val(Val(call.rselect).object).id)
            THEN "TABLE_NAME_ALREADY_EXISTS"
            ELSE call.dao_error

\* C9 amended: when the table insert fails the provider rolls back first; if
\* the rollback fails it returns the rollback's error without reading;
\* otherwise it then reads the table by name, outside the transaction, and
\* the result is already-exists exactly when the read finds a row of that
\* name carrying an id, and the insert's error otherwise.
C9_RollbackThenRead ==
    /\ (call.op = "add_table_metadata" /\ call.pc = "select") =>
          /\ txn = "none"
          /\ call.log[Len(call.log)] = "rollback"
          /\ call.rollback_result = "OK"
    /\ TableInsertFailed =>
          IF call.rollback_result = "OK"
          THEN /\ Has(call.rselect)
               /\ call.log = <<"init", "fill_parameters", "start_transaction",
                               "insert_table_metadata", "rollback",
                               "select_table_metadata">>
               /\ call.error =
                    IF /\ Val(call.rselect).error = "OK"
                       /\ Has(Val(Val(call.rselect).object).id)
                    THEN "TABLE_NAME_ALREADY_EXISTS"
                    ELSE call.dao_error
          ELSE /\ ~Has(call.rselect)
               /\ call.log = <<"init", "fill_parameters", "start_transaction",
                               "insert_table_metadata", "rollback">>
               /\ call.error = call.rollback_result

\* C9 witness: the insert of a table with a new name failed, the rollback
\* succeeded, the read found no row and the insert's error was returned.
C9_Witness ==
    /\ TableInsertFailed
    /\ call.rollback_result = "OK"
    /\ Has(call.rselect) /\ Val(call.rselect).error = "NAME_NOT_FOUND"
    /\ call.error = call.dao_error
    /\ ~NameStored(db, Val(call.object.name))

\* C10: add_table_metadata validates the table and its columns before
\* start_transaction: when the validation fails the call returns
\* INVALID_PARAMETER, no transaction is started, no DAO insert is executed
\* and the repository is unchanged; a transaction is only ever started after
\* a validation that succeeded.
C10_ValidationBeforeTransaction ==
    call.op = "add_table_metadata" =>
       /\ LogHas("start_transaction") =>
             /\ call.fill = "OK"
             /\ call.log[2] = "fill_parameters"
       /\ call.fill \notin {"OK", "NONE"} =>
             /\ call.pc = "done"
             /\ call.fill = "INVALID_PARAMETER" =>
                   call.error = "INVALID_PARAMETER"
             /\ call.log = <<"init", "fill_parameters">>
             /\ db = call.pre /\ work = call.pre
             /\ txn # "open"
             /\ call.table_id = 0
       /\ (Has(call.object.columns) /\ Val(call.object.columns) \in BadLists
           /\ call.fill # "NONE") =>
             call.fill = "INVALID_PARAMETER"

\* C10 witness: a table whose second column has ordinal position 0 was
\* rejected with INVALID_PARAMETER while the repository held a table.
C10_Witness ==
    /\ AddDone
    /\ call.object.name = Some("t1")
    /\ Has(call.object.columns)
    /\ Len(Val(call.object.columns)) >= 2
    /\ Val(call.object.columns)[2].ordinal_position = Some(0)
    /\ call.error = "INVALID_PARAMETER"
    /\ call.log = <<"init", "fill_parameters">>
    /\ Len(db.tables) = 1


(***************************************************************************)
(* Claims about get_table_metadata, set_table_statistic and                *)
(* remove_table_metadata.                                                  *)
(***************************************************************************)
OpDone(op) == call.op = op /\ call.pc = "done"

\* A column row holds the values of the fields of a column handed to
\* add_table_metadata.
SameFields(row, column) ==
    /\ row.name = Val(column.name)
    /\ row.ordinal_position = Val(column.ordinal_position)
    /\ row.data_type_id = Val(column.data_type_id)
    /\ row.nullable = Val(column.nullable)

\* A successful get_table_metadata by id has just returned a table that a
\* committed add_table_metadata stored.
GotAddedTable ==
    /\ OpDone("get_table_metadata") /\ call.key = "id"
    /\ call.error = "OK"
    /\ Has(added[Val(call.value)])

\* C11: a table read by the id a successful add_table_metadata returned has
\* the name that was added, and its columns subtree holds exactly the added
\* columns, in the order they were added and with the field values they were
\* added with.
C11_AddThenGetRoundTrip ==
    GotAddedTable =>
       LET object == Val(added[Val(call.value)])
           got == Val(call.result)
       IN /\ got.name = object.name
          /\ Has(got.columns)
          /\ Len(Val(got.columns)) = Len(Val(object.columns))
          /\ \A k \in 1..Len(Val(object.columns)) :
                /\ SameFields(Val(got.columns)[k], Val(object.columns)[k])
                /\ Val(got.columns)[k].table_id = Val(call.value)

\* C11 witness: a table added with at least two columns was read by its id.
C11_Witness ==
    /\ GotAddedTable
    /\ Len(Val(Val(added[Val(call.value)]).columns)) >= 2
    /\ Len(Val(Val(call.result).columns)) >= 2

\* The errors that report a failure of the backend or of the session.
FailureErrors == BackendErrors \cup SessionErrors

\* remove_table_metadata has returned and its key selected exactly one table
\* of the repository when it was called.
RemovedExistingTable ==
    /\ OpDone("remove_table_metadata")
    /\ Cardinality(TableRows(call.pre, call.key, Val(call.value))) = 1

\* The id of the table the key of the call selected when it was called.
TargetId ==
    call.pre.tables[CHOOSE i \in TableRows(call.pre, call.key,
                                           Val(call.value)) : TRUE].id

\* The repository holds neither the table row nor a column of the table.
TableGone(id) ==
    /\ TableRows(db, "id", id) = {}
    /\ ColumnsOf(db, id) = <<>>

\* C12: remove_table_metadata on an existing table, with any number of
\* columns, succeeds unless the backend or the session fails: it returns OK,
\* the table row and every column of the table are removed, and a read of the
\* table by its id finds nothing.
C12_RemoveExistingSucceeds ==
    (RemovedExistingTable /\ call.error \notin FailureErrors) =>
       /\ call.error = "OK"
       /\ TableGone(TargetId)
       /\ \A t \in select_table_by_key_results("id", TargetId) :
             t.error # "OK"

\* remove_table_metadata has returned after one of its two deletes failed.
RemoveStepFailed ==
    OpDone("remove_table_metadata") /\ call.dao_error # "OK"

\* The transaction of the call was committed only after both deletes had
\* succeeded.
CommitOnlyAfterBothDeletes ==
    (OpDone("remove_table_metadata") /\ LogHas("commit")) =>
       /\ LogHas("delete_table_metadata")
       /\ LogHas("delete_column_metadata")
       /\ call.dao_error = "OK"

\* C13 as stated: remove_table_metadata commits only when both deletes
\* succeeded; when one of them fails the transaction is rolled back, the
\* stored tables and columns are those of before the call, and the error of
\* the failed delete is returned.
C13_FailedStepErrorReturned ==
    /\ CommitOnlyAfterBothDeletes
    /\ RemoveStepFailed =>
          /\ LogHas("rollback") /\ ~LogHas("commit")
          /\ db = call.pre
          /\ call.error = call.dao_error

\* C13: remove_table_metadata commits only when both deletes succeeded; when
\* one of them fails the transaction is rolled back, the stored tables and
\* columns are those of before the call, and the call returns the error of
\* the failed delete if the rollback succeeded and the error of the rollback
\* if it did not.
C13_FailedStepRolledBack ==
    /\ CommitOnlyAfterBothDeletes
    /\ RemoveStepFailed =>
          /\ LogHas("rollback") /\ ~LogHas("commit")
          /\ db = call.pre
          /\ call.error = IF call.rollback_result = "OK"
                          THEN call.dao_error ELSE call.rollback_result

\* C13 witness: the column delete of a stored table with columns failed
\* after the table row had been deleted, and the repository is as before.
C13_Witness ==
    /\ RemoveStepFailed /\ RemovedExistingTable
    /\ LogHas("delete_column_metadata")
    /\ ColumnsOf(call.pre, TargetId) # <<>>
    /\ call.rollback_result = "OK"
    /\ call.error = call.dao_error
    /\ db = call.pre /\ TableRows(db, "id", TargetId) # {}

\* A statistic row is the companion of a column of a stored table.
HasColumn(store, statistic) ==
    /\ TableRows(store, "id", statistic.table_id) # {}
    /\ \E k \in 1..Len(store.columns) :
          /\ store.columns[k].table_id = statistic.table_id
          /\ store.columns[k].ordinal_position = statistic.ordinal_position

\* C14: after a successful remove_table_metadata no column-statistic row
\* with the id of the removed table remains, and every stored statistic row
\* belongs to a column of a stored table.
C14_StatisticsRemovedWithTable ==
    /\ (OpDone("remove_table_metadata") /\ call.error = "OK") =>
          \A s \in db.statistics : s.table_id # call.table_id
    /\ \A s \in db.statistics : HasColumn(db, s)

\* The operations that run in a transaction.
TransactionOps ==
    {"add_table_metadata", "set_table_statistic", "remove_table_metadata"}

\* Number of calls of a session function the operation has made.
Calls(x) == Cardinality({k \in 1..Len(call.log) : call.log[k] = x})

\* The operation has started a transaction: start_transaction was called
\* and was not the last step, which it is when it fails.
TransactionStarted ==
    \E k \in 1..Len(call.log) :
       call.log[k] = "start_transaction" /\ k < Len(call.log)

\* C15: an operation that has started a transaction has called commit or
\* rollback exactly once, and never both, when it returns; one that has not
\* started a transaction has called neither; and no operation returns with
\* its transaction still open.
C15_OneCommitOrRollback ==
    (call.op \in TransactionOps /\ call.pc = "done") =>
       /\ Calls("start_transaction") <= 1
       /\ TransactionStarted =>
             Calls("commit") + Calls("rollback") = 1
       /\ ~TransactionStarted =>
             Calls("commit") + Calls("rollback") = 0
       /\ txn # "open"

\* C15 witness: remove_table_metadata has returned after its table delete
\* failed and the one rollback it called ended the transaction.
C15_Witness ==
    /\ OpDone("remove_table_metadata")
    /\ call.dao_error # "OK" /\ ~LogHas("delete_column_metadata")
    /\ TransactionStarted
    /\ Calls("rollback") = 1 /\ Calls("commit") = 0
    /\ txn = "none"

\* set_table_statistic has returned after init() succeeded.
SetDone == OpDone("set_table_statistic") /\ LogHas("check")

\* The tables of before the call with the tuple count of the rows the key
\* selects replaced by the count handed in.
TuplesUpdated ==
    [i \in 1..Len(call.pre.tables) |->
        IF i \in TableRows(call.pre, call.key, Val(call.value))
        THEN [call.pre.tables[i] EXCEPT !.tuples = call.stat.tuples]
        ELSE call.pre.tables[i]]

\* C16: set_table_statistic returns INVALID_PARAMETER without starting a
\* transaction when its input has neither id nor name or has no tuples
\* value; otherwise it starts a transaction, and once the update was tried
\* the transaction is committed when the update succeeded (the tuple count
\* of the table is then the one handed in) and rolled back, with the tables
\* unchanged, when it failed.
C16_SetTableStatistic ==
    SetDone =>
       /\ ~StatisticParametersValid(call.stat) =>
             /\ call.error = "INVALID_PARAMETER"
             /\ ~LogHas("start_transaction")
             /\ db = call.pre
       /\ StatisticParametersValid(call.stat) => LogHas("start_transaction")
       /\ (LogHas("update_reltuples") /\ call.dao_error = "OK") =>
             /\ LogHas("commit") /\ ~LogHas("rollback")
             /\ call.error = "OK" =>
                   db = [call.pre EXCEPT !.tables = TuplesUpdated]
       /\ (LogHas("update_reltuples") /\ call.dao_error # "OK") =>
             /\ LogHas("rollback") /\ ~LogHas("commit")
             /\ db = call.pre

\* C16 witness: a statistic object with a name and no id has set the tuple
\* count of the table of that name, and the update was committed.
C16_Witness ==
    /\ SetDone /\ call.error = "OK"
    /\ ~Has(call.stat.id) /\ call.key = "name"
    /\ LogHas("commit")
    /\ db # call.pre
    /\ \E i \in TableRows(db, "name", Val(call.value)) :
          db.tables[i].tuples = call.stat.tuples

\* get_table_metadata by id or by name has found the table row and looked
\* up its columns.
GotTableRow ==
    /\ OpDone("get_table_metadata")
    /\ Has(call.result) /\ Len(call.lookups) = 1

\* C17: when get_table_metadata, by id or by name, finds a table that has no
\* columns, the zero rows the column lookup reports are not returned as an
\* error: unless the lookup fails in the backend the call returns OK and the
\* table carries an empty columns subtree.
C17_NoColumnsIsSuccess ==
    (/\ GotTableRow
     /\ ColumnsOf(db, Val(Val(call.result).id)) = <<>>
     /\ call.lookups[1].error \notin BackendErrors) =>
       /\ call.lookups[1].error = "INVALID_PARAMETER"
       /\ call.error = "OK"
       /\ Val(call.result).columns = Some(<<>>)

\* C17 witness: a table stored without columns was read by its name and
\* returned with an empty columns subtree.
C17_Witness ==
    /\ GotTableRow /\ call.key = "name"
    /\ TableRows(db, "name", Val(call.value)) # {}
    /\ ColumnsOf(db, Val(Val(call.result).id)) = <<>>
    /\ call.lookups[1].error = "INVALID_PARAMETER"
    /\ call.error = "OK"
    /\ Val(call.result).columns = Some(<<>>)

\* get_table_metadata for all tables has returned after the select of the
\* table rows succeeded.
GotAllTables ==
    /\ OpDone("get_all_table_metadata")
    /\ LogHas("select_table_metadata") /\ Has(call.result)
    /\ (Len(call.lookups) = 0 => call.error = "OK")

\* The column lookup of the k-th table failed.
LookupFailed(k) == call.lookups[k].error \in BackendErrors

\* C18: get_table_metadata for all tables looks up the columns of the tables
\* in the order of the container; the first lookup that fails is the last
\* one made and its error is returned, the tables after it are left without
\* columns subtree; when no lookup fails every table has its columns
\* attached and OK is returned.
C18_StopsAtFirstFailedLookup ==
    GotAllTables =>
       LET container == Val(call.result)
           n == Len(call.lookups)
       IN /\ n <= Len(container)
          /\ \A k \in 1..n : call.lookups[k].id = Val(container[k].id)
          /\ \A k \in 1..n :
                LookupFailed(k) =>
                   /\ k = n
                   /\ call.error = call.lookups[k].error
          /\ \A k \in 1..Len(container) :
                Has(container[k].columns) <=> (k <= n /\ ~LookupFailed(k))
          /\ (\A k \in 1..n : ~LookupFailed(k)) =>
                (n = Len(container) /\ call.error = "OK")

\* C18 witness: two tables are stored, the column lookup of the first one
\* failed, and the call returned that error without a lookup for the second.
C18_Witness ==
    /\ GotAllTables
    /\ Len(Val(call.result)) = 2
    /\ Len(call.lookups) = 1 /\ LookupFailed(1)
    /\ call.error = call.lookups[1].error
    /\ ~Has(Val(call.result)[2].columns)

(***************************************************************************)
(* Claims about the document session and IndexDaoJson.                     *)
(***************************************************************************)
\* The objects of the backing document.
DocumentObjects == IF doc.exists THEN doc.indexes ELSE <<>>

Holds(objects, object) == \E i \in 1..Len(objects) : objects[i] = object

\* The objects among a sequence whose field key has the value.
Matching(objects, key, value) ==
    {i \in 1..Len(objects) : FieldOf(objects[i], key) = Some(value)}

\* The most recent call was a DAO call of a session whose tree was loaded
\* by an earlier call of the same transaction.
CalledOnLoadedTree(op) ==
    dcall.op = op /\ dcall.pre.loaded

\* C19: within a transaction only the first load_contents reads the backing
\* document; an object inserted by IndexDaoJson::insert is in the tree of
\* the session until it is removed or replaced, and every later exists,
\* select, select_all and remove of the session before commit or rollback
\* works on that tree: it finds the inserted object.
C19_UncommittedInsertVisible ==
    /\ dcall.read => ~dcall.pre.loaded
    /\ \A s \in Sessions :
          \A k \in 1..Len(sess[s].fresh) :
             Holds(sess[s].contents, sess[s].fresh[k])
    /\ \A k \in 1..Len(dcall.pre.fresh) :
          LET object == dcall.pre.fresh[k]
          IN /\ (CalledOnLoadedTree("exists")
                  /\ object.name = dcall.value) =>
                   dcall.result = Some(TRUE)
             /\ (CalledOnLoadedTree("select")
                  /\ FieldOf(object, dcall.key) = dcall.value) =>
                   /\ dcall.error = "OK"
                   /\ FieldOf(Val(dcall.result), dcall.key) = dcall.value
             /\ CalledOnLoadedTree("select_all") =>
                   /\ dcall.error = "OK"
                   /\ Holds(Val(dcall.result), object)
             /\ (CalledOnLoadedTree("remove")
                  /\ FieldOf(object, dcall.key) = dcall.value) =>
                   dcall.error = "OK"

\* C19 witness: a select by name has returned an object that was inserted
\* earlier in the same transaction and is not in the backing document.
C19_Witness ==
    /\ CalledOnLoadedTree("select") /\ dcall.key = "name"
    /\ ~dcall.read /\ dcall.error = "OK"
    /\ Holds(dcall.pre.fresh, Val(dcall.result))
    /\ ~Holds(DocumentObjects, Val(dcall.result))

\* A read-only call has just loaded the tree from the backing document.
LoadedByReadOnlyCall ==
    /\ dcall.op \in {"exists", "select", "select_all"}
    /\ dcall.read /\ sess[dcall.session].loaded

\* C20: after a rollback the backing document is the one the transaction
\* read when it began, whatever was inserted, updated or removed in between,
\* and the next load_contents returns the content of that document, with
\* none of the objects the rollback discarded.
C20_RollbackRestoresDocument ==
    /\ dcall.op = "rollback" =>
          /\ doc = dcall.pre.base
          /\ ~sess[dcall.session].loaded
    /\ LoadedByReadOnlyCall =>
          /\ sess[dcall.session].contents = DocumentObjects
          /\ \A k \in 1..Len(sess[dcall.session].discarded) :
                ~Holds(sess[dcall.session].contents,
                       sess[dcall.session].discarded[k])

\* C20 witness: the first select_all after a rollback that discarded an
\* insert has returned the content of the backing document.
C20_Witness ==
    /\ LoadedByReadOnlyCall /\ dcall.op = "select_all"
    /\ dcall.error = "OK"
    /\ sess[dcall.session].discarded # <<>>
    /\ dcall.result = Some(DocumentObjects)

(***************************************************************************)
(* Claims about Metadata::save.                                            *)
(***************************************************************************)
\* The most recent call wrote the file, with the given result.
Saved(result) == mcall.op \in {"save", "add"} /\ mcall.saved = result

\* C21: the metadata file only ever holds a completely written tree: a save
\* that succeeds leaves the text of the whole tree in memory, a save that
\* fails leaves the file as it was before the call, and the file is
\* well-formed at all times, so that no later load finds a partly written
\* file.
C21_DocumentNeverPartial ==
    /\ Saved("OK") => file = [exists |-> TRUE,
                              text |-> write_json(metadata_.root)]
    /\ Saved("UNKNOWN") => file = mcall.pre_file
    /\ file.exists => WellFormed(file.text)

(***************************************************************************)
(* Claims about sessions that write the same document.                     *)
(***************************************************************************)
CommitDone == dcall.op = "commit" /\ dcall.error = "OK"

\* An object that was in the document when the commit began, was not there
\* when the committing session loaded its tree, and is not there now.
LostByCommit(object) ==
    /\ Holds(dcall.pre_doc.indexes, object)
    /\ ~Holds(dcall.pre.base.indexes, object)
    /\ ~Holds(DocumentObjects, object)

\* C22: the document backend has no concurrency control: a commit replaces
\* the document by the tree of the committing session, with every object
\* the session inserted, whatever other sessions have committed since the
\* session loaded its tree; so of two sessions that load the same document,
\* insert one object each and commit, the later one leaves a document
\* without the object of the earlier one.
C22_LastCommitterWins ==
    CommitDone =>
        /\ doc = [exists |-> TRUE, indexes |-> dcall.pre.contents]
        /\ \A k \in 1..Len(dcall.pre.fresh) :
              Holds(DocumentObjects, dcall.pre.fresh[k])

\* C22 witness: a session has committed its insert, and the insert another
\* session committed in between is no longer in the document.
C22_Witness ==
    /\ CommitDone
    /\ dcall.pre.fresh # <<>>
    /\ \A k \in 1..Len(dcall.pre.fresh) :
          Holds(DocumentObjects, dcall.pre.fresh[k])
    /\ \E i \in 1..Len(dcall.pre_doc.indexes) :
          LostByCommit(dcall.pre_doc.indexes[i])
    /\ Len(DocumentObjects) = 1

(***************************************************************************)
(* Claims about IndexDaoJson::update, remove, select and insert.           *)
(***************************************************************************)
\* The collection the most recent DAO call worked on, before it changed it.
Before ==
    IF dcall.pre.loaded THEN dcall.pre.contents
    ELSE IF dcall.pre_doc.exists THEN dcall.pre_doc.indexes ELSE <<>>

\* The collection of the session of the most recent DAO call.
After == sess[dcall.session].contents

UpdateDone == dcall.op = "update" /\ dcall.error = "OK"

\* The object an update appended has the stamps of an object the key and
\* value of the update selected, and the collection has kept its size.
StampsKept ==
    /\ \E i \in Matching(Before, dcall.key, Val(dcall.value)) :
          /\ Val(dcall.result).id = Before[i].id
          /\ Val(dcall.result).format_version = Before[i].format_version
          /\ Val(dcall.result).generation = Before[i].generation
    /\ After # <<>> /\ After[Len(After)] = Val(dcall.result)
    /\ Len(After) = Len(Before)

\* C23: a successful IndexDaoJson::update of an existing object keeps the
\* id, format_version and generation of that object, whatever the replacing
\* object carries in those fields, and leaves the number of objects of the
\* collection unchanged.
C23_UpdateKeepsStamps == UpdateDone => StampsKept

\* The same for updates by id or by name only.
UpdateByIdOrNameKeepsStamps ==
    (UpdateDone /\ dcall.key \in {"id", "name"}) => StampsKept

(***************************************************************************)
(* Claims about the StatisticsDAO.                                         *)
(***************************************************************************)
\* C24: after any sequence of upserts and deletes the column statistics
\* table holds at most one row per (table_id, ordinal_position): none when
\* the key was never upserted or was deleted since, and otherwise exactly
\* the row of the most recent upsert of the key; so a second upsert of a key
\* with another payload leaves one row, with the second payload.
C24_OneRowPerKeyLatestPayload ==
    \A k \in StatKeys :
       RowsOfKey(column_statistics, k[1], k[2]) =
          IF Has(scall.latest[k]) THEN {Val(scall.latest[k])} ELSE {}

\* C24 witness: an upsert has replaced the payload an earlier upsert of the
\* same key had stored by a different one.
C24_Witness ==
    /\ scall.op = "upsert_one" /\ scall.error = "OK"
    /\ \E old \in RowsOfKey(scall.pre, scall.table_id,
                             scall.ordinal_position) :
          /\ Has(old.column_statistic)
          /\ old.column_statistic # BoundStatistic(scall.column_statistic)
    /\ RowsOfKey(column_statistics, scall.table_id, scall.ordinal_position)
          = {StatRow(scall.table_id, scall.ordinal_position,
                     scall.column_statistic)}
    /\ Has(BoundStatistic(scall.column_statistic))

\* The rows the most recent call addressed, as they were before the call.
Addressed ==
    IF scall.op = "delete_all" THEN RowsOfTable(scall.pre, scall.table_id)
    ELSE RowsOfKey(scall.pre, scall.table_id, scall.ordinal_position)

\* C25: every write of the StatisticsDAO checks the number of affected rows:
\* an upsert and a delete by (table_id, ordinal_position) return OK only
\* when exactly one row was affected, a delete by table_id only when at
\* least one row was affected, and report INVALID_PARAMETER otherwise; a
\* delete that addresses no row is never reported as OK, is reported as
\* INVALID_PARAMETER unless the backend itself failed, and leaves the table
\* as it was.
C25_AffectedRowsChecked ==
    /\ (scall.op \in {"upsert_one", "delete_one"} /\ scall.error = "OK") =>
          scall.executed /\ scall.affected = 1
    /\ (scall.op = "delete_all" /\ scall.error = "OK") =>
          scall.executed /\ scall.affected >= 1
    /\ (scall.op \in {"upsert_one", "delete_one"} /\ scall.executed
        /\ scall.affected # 1) =>
          scall.error \in {"INVALID_PARAMETER"} \cup BackendErrors
    /\ (scall.op \in {"delete_one", "delete_all"} /\ Addressed = {}) =>
          /\ scall.error \in {"INVALID_PARAMETER"} \cup BackendErrors
          /\ column_statistics = scall.pre

\* C25 witness: the delete of a statistic that is not stored has been
\* reported as INVALID_PARAMETER.
C25_Witness ==
    /\ scall.op = "delete_one" /\ scall.executed
    /\ Addressed = {} /\ scall.pre # {}
    /\ scall.error = "INVALID_PARAMETER"
    /\ column_statistics = scall.pre

(***************************************************************************)
(* Claims about Index::convert_to_ptree and Index::convert_from_ptree.     *)
(***************************************************************************)
\* convert_from_ptree has filled a record from the tree convert_to_ptree
\* made of the Index record, as it was made.
RoundTripDone == Has(decoded) /\ index_pt.absent = {}

\* C26: for every Index record, convert_from_ptree of the tree that
\* convert_to_ptree makes of it fills a record equal to the original in
\* every field; the lists keys, keys_id and options have the same elements
\* in the same order.
C26_IndexRoundTrip ==
    RoundTripDone =>
        /\ Val(decoded) = index
        /\ Val(decoded).keys = index.keys
        /\ Val(decoded).keys_id = index.keys_id
        /\ Val(decoded).options = index.options

\* C26 witness: a record with negative and two-digit numbers, a name and
\* lists in which the order shows has made the round trip.
C26_Witness ==
    /\ RoundTripDone
    /\ index.owner_id = 12 /\ index.access_method = -1
    /\ index.name # <<>>
    /\ index.keys = <<2, 1>> /\ index.keys_id = <<1, 12, 1>>
    /\ Val(decoded).keys = <<2, 1>>
    /\ Val(decoded).keys_id = <<1, 12, 1>>

\* The value convert_from_ptree gives a field of Index that the tree lacks.
Sentinel(field) ==
    IF field = "owner_id" THEN INVALID_OBJECT_ID
    ELSE IF field \in {"access_method", "number_of_columns",
                       "number_of_key_columns"} THEN INVALID_VALUE
    ELSE <<>>

\* The value of a field of an Index record.
IndexField(i, field) ==
    IF field = "owner_id" THEN i.owner_id
    ELSE IF field = "access_method" THEN i.access_method
    ELSE IF field = "number_of_columns" THEN i.number_of_columns
    ELSE IF field = "number_of_key_columns" THEN i.number_of_key_columns
    ELSE IF field = "keys" THEN i.keys
    ELSE IF field = "keys_id" THEN i.keys_id
    ELSE i.options

\* C27: convert_from_ptree fills a record from every tree, whichever fields
\* the tree lacks: an absent owner_id gives INVALID_OBJECT_ID, an absent
\* access_method, number_of_columns or number_of_key_columns gives
\* INVALID_VALUE, an absent keys, keys_id or options gives the empty
\* sequence, and the fields the tree has are decoded as they are.
C27_AbsentFieldsGiveSentinels ==
    Has(decoded) =>
        \A field \in IndexFields :
           IndexField(Val(decoded), field) =
              IF field \in index_pt.absent THEN Sentinel(field)
              ELSE IndexField(index, field)

\* C27 witness: an empty tree has been decoded to the sentinels, for a
\* record none of whose fields held a sentinel.
C27_Witness ==
    /\ Has(decoded)
    /\ index_pt.tree = <<>>
    /\ index.owner_id = 12 /\ index.access_method = 0
    /\ index.keys # <<>> /\ index.keys_id # <<>> /\ index.options # <<>>
    /\ \A field \in IndexFields :
          IndexField(Val(decoded), field) = Sentinel(field)

\* The most recent call was the DAO call op and had a loaded tree to work
\* on.
WorkedOnTree(op) == dcall.op = op /\ sess[dcall.session].loaded

\* C28: IndexDaoJson::remove with a key that is neither id nor name returns
\* NOT_SUPPORTED and erases nothing, whatever the collection holds, an empty
\* collection included.
C28_UnsupportedKeyNotSupported ==
    (WorkedOnTree("remove") /\ dcall.key \notin {"id", "name"}) =>
        /\ dcall.error = "NOT_SUPPORTED"
        /\ After = Before

\* The same for collections that hold at least one object.
UnsupportedKeyOnObjectsNotSupported ==
    (WorkedOnTree("remove") /\ dcall.key \notin {"id", "name"}
     /\ Before # <<>>) =>
        /\ dcall.error = "NOT_SUPPORTED"
        /\ After = Before

\* The most recent call looked up, by id or by name, a value that no object
\* of the collection has.
LookedUpInVain(op) ==
    /\ WorkedOnTree(op)
    /\ dcall.key \in {"id", "name"}
    /\ Matching(Before, dcall.key, Val(dcall.value)) = {}

InsertedDuplicateName ==
    /\ WorkedOnTree("insert")
    /\ Has(Val(dcall.object).name)
    /\ Matching(Before, "name", Val(Val(dcall.object).name)) # {}

\* C30: IndexDaoJson::insert of an object whose name an object of the
\* loaded collection has, committed or inserted earlier in the same
\* transaction, returns ALREADY_EXISTS, issues no object id and leaves the
\* collection as it was.
C30_DuplicateNameRejected ==
    InsertedDuplicateName =>
        /\ dcall.error = "ALREADY_EXISTS"
        /\ dcall.object_id = None
        /\ index_oid = dcall.pre_oid
        /\ After = Before

\* The same for a session whose tree was loaded by an earlier call, so that
\* no load_contents of the insert can fail.
DuplicateNameOnLoadedTreeRejected ==
    (InsertedDuplicateName /\ dcall.pre.loaded) =>
        /\ dcall.error = "ALREADY_EXISTS"
        /\ dcall.object_id = None
        /\ index_oid = dcall.pre_oid
        /\ After = Before

\* C31: IndexDaoJson::update for a key and value that no object has returns
\* the not-found error of the key and leaves the collection as it was: no
\* object is appended or removed.
C31_UpdateNotFoundChangesNothing ==
    LookedUpInVain("update") =>
        /\ dcall.error = IF dcall.key = "id" THEN "ID_NOT_FOUND"
                         ELSE "NAME_NOT_FOUND"
        /\ After = Before

\* The error alone: an update that matches nothing returns the not-found
\* error of the key.
UpdateNotFoundReported ==
    LookedUpInVain("update") =>
        dcall.error = IF dcall.key = "id" THEN "ID_NOT_FOUND"
                      ELSE "NAME_NOT_FOUND"

\* No two objects of a collection have the same name, none the same id.
Distinct(objects) ==
    \A i \in 1..Len(objects) : \A j \in 1..Len(objects) :
       i # j =>
          /\ ~(Has(objects[i].name) /\ objects[i].name = objects[j].name)
          /\ ~(Has(objects[i].id) /\ objects[i].id = objects[j].id)

\* C32: after any sequence of IndexDaoJson insert, update and remove calls
\* starting from an empty collection, no two objects of the collection have
\* the same name and no two have the same id.
C32_NamesAndIdsUnique ==
    \A s \in Sessions : Distinct(sess[s].contents)

\* The same for sequences of insert and remove calls only, on a tree that
\* was loaded before the insert began.
UniqueWithoutUpdate ==
    (dcall.op \in {"insert", "remove"} /\ dcall.pre.loaded
     /\ Distinct(Before)) => Distinct(After)


\* The most recent call is an insert that returned OK.
InsertDone == dcall.op = "insert" /\ dcall.error = "OK"

\* The object an insert that returned OK has appended.
Inserted == After[Len(After)]

\* C33: a successful IndexDaoJson::insert appends exactly one object, stamped
\* with format_version 1, generation 1 and a freshly generated id that is
\* greater than every id issued before; the id counter is advanced durably
\* at insert time, and a rollback does not take it back.
C33_InsertStampsFreshId ==
    /\ InsertDone =>
          /\ Len(After) = Len(Before) + 1
          /\ SubSeq(After, 1, Len(Before)) = Before
          /\ Inserted.format_version = Some(1)
          /\ Inserted.generation = Some(1)
          /\ Inserted.id = dcall.object_id
          /\ \A id \in dcall.pre_issued : Val(dcall.object_id) > id
          /\ index_oid = Val(dcall.object_id)
    /\ dcall.op = "rollback" => index_oid = dcall.pre_oid

\* The part of C33 that holds whatever the id generator does: one object is
\* appended, with format_version 1, generation 1 and the id returned, and a
\* rollback leaves the counter alone.
InsertAppendsStamped ==
    /\ InsertDone =>
          /\ Len(After) = Len(Before) + 1
          /\ SubSeq(After, 1, Len(Before)) = Before
          /\ Inserted.format_version = Some(1)
          /\ Inserted.generation = Some(1)
          /\ Inserted.id = dcall.object_id
    /\ dcall.op = "rollback" => index_oid = dcall.pre_oid

\* C33 holds as long as the id generator works.
InsertWithWorkingGenerator ==
    INVALID_OID \notin dcall.issued => C33_InsertStampsFreshId

\* The most recent call is a remove that worked on the tree of its session.
RemoveRan == dcall.op = "remove" /\ sess[dcall.session].loaded

\* The first object of the collection that matches the key and the value of
\* the most recent call, 0 when there is none.
FirstMatch ==
    LET hits == Matching(Before, dcall.key, Val(dcall.value))
    IN IF hits = {} THEN 0 ELSE CHOOSE i \in hits : \A j \in hits : i <= j

\* The first object of the collection without an id, 0 when there is none.
FirstWithoutId ==
    LET bare == {i \in 1..Len(Before) : ~Has(Before[i].id)}
    IN IF bare = {} THEN 0 ELSE CHOOSE i \in bare : \A j \in bare : i <= j

\* C34: a successful IndexDaoJson::remove erases exactly the first object in
\* collection order that matches the key and the value, returns the id of
\* that object and leaves the other objects and their order unchanged; when
\* the scan by id or by name reaches an object without an id before it finds
\* a match, remove returns INTERNAL_ERROR and erases nothing.
C34_RemoveErasesFirstMatch ==
    /\ (RemoveRan /\ dcall.error = "OK") =>
          /\ FirstMatch # 0
          /\ After = Erase(Before, FirstMatch)
          /\ dcall.object_id = Before[FirstMatch].id
    /\ (RemoveRan /\ dcall.key \in {"id", "name"} /\ FirstWithoutId # 0
          /\ (FirstMatch = 0 \/ FirstWithoutId <= FirstMatch)) =>
          /\ dcall.error = "INTERNAL_ERROR"
          /\ After = Before

\* C34 witness: a remove by name has erased the second of three objects, the
\* first of two that carry the name, from a collection of three.
C34_Witness ==
    /\ RemoveRan /\ dcall.error = "OK" /\ dcall.key = "name"
    /\ Len(Before) = 3 /\ FirstMatch = 2
    /\ Cardinality(Matching(Before, dcall.key, Val(dcall.value))) = 2

\* C34 witness of the second part: a remove has met an object without an id
\* in front of the object that matches, and returned INTERNAL_ERROR.
RemoveMetObjectWithoutId ==
    /\ RemoveRan /\ dcall.error = "INTERNAL_ERROR"
    /\ FirstWithoutId # 0 /\ FirstMatch > FirstWithoutId
    /\ After = Before

(***************************************************************************)
(* Claims about failed rollbacks and fill_parameters of the TablesProvider. *)
(***************************************************************************)
\* The call has ended after a DAO step failed and the rollback that followed
\* failed as well.
RollbackFailedAfterDaoError ==
    /\ call.pc = "done"
    /\ call.op \in {"add_table_metadata", "set_table_statistic",
                    "remove_table_metadata"}
    /\ call.dao_error # "OK"
    /\ call.rollback_result \notin {"NONE", "OK"}

\* The calls the operation has made, in order.
Called(step) == \E i \in 1..Len(call.log) : call.log[i] = step

\* C35: when a DAO step of add_table_metadata, set_table_statistic or
\* remove_table_metadata fails and the rollback that follows fails as well,
\* the operation returns the error of the rollback, not the error of the DAO
\* step, and add_table_metadata does not make the read by name that tells
\* "already exists" from other failures.
C35_FailedRollbackErrorReturned ==
    RollbackFailedAfterDaoError =>
       /\ call.error = call.rollback_result
       /\ call.log[Len(call.log)] = "rollback"
       /\ call.rselect = None
       /\ ~Called("select_table_metadata")

\* C35 witness: add_table_metadata has ended with the error of the rollback
\* after the insert of a table whose name is stored already failed with
\* another error.
C35_Witness ==
    /\ RollbackFailedAfterDaoError /\ call.op = "add_table_metadata"
    /\ NameStored(db, Val(call.object.name))
    /\ call.error # call.dao_error
    /\ ~Called("insert_one_column_metadata")

\* The failed rollback is also reached by the other two operations.
FailedRollbackOfStatisticOrRemove ==
    /\ RollbackFailedAfterDaoError /\ call.op # "add_table_metadata"
    /\ call.error # call.dao_error

\* add_table_metadata has run fill_parameters on its object.
FillParametersRan == call.op = "add_table_metadata" /\ call.fill # "NONE"

\* The table has a name that is not empty.
TableNamed(table) == Has(table.name) /\ Val(table.name) # ""

\* Every column the table has passes the checks; a table without a
\* "columns" node has no column.
EveryColumnValid(table) ==
    Has(table.columns) =>
       \A i \in 1..Len(Val(table.columns)) :
          ColumnValid(Val(table.columns)[i])

\* C36: fill_parameters returns OK exactly when the table name is present and
\* not empty and every column has a name that is not empty, an ordinal
\* position greater than 0, a data_type_id that is not negative and resolves
\* to a data type, and a nullable value that is not empty; in every other
\* case it returns INVALID_PARAMETER.
C36_FillParametersValidates ==
    FillParametersRan =>
       call.fill = IF TableNamed(call.object) /\ EveryColumnValid(call.object)
                   THEN "OK" ELSE "INVALID_PARAMETER"

\* C36 holds for every table that has a "columns" node or lacks a name.
FillParametersOnTreesWithColumns ==
    (FillParametersRan
       /\ (Has(call.object.columns) \/ ~TableNamed(call.object))) =>
       call.fill = IF TableNamed(call.object) /\ EveryColumnValid(call.object)
                   THEN "OK" ELSE "INVALID_PARAMETER"

(***************************************************************************)
(* Claims about Metadata::next and Metadata::add.                          *)
(***************************************************************************)
\* Every call of next so far was made on a cursor that was fresh when the
\* collection was loaded, and the collection was loaded once.
FreshCursor == mcall.cursor = "fresh"

\* C37: on a fresh cursor over a collection of n objects, the first n calls
\* of Metadata::next return OK with the objects in stored order, each once,
\* the call after them returns END_OF_ROW, and so does every later call as
\* long as the collection is not loaded again.
C37_CursorEndsOnce ==
    FreshCursor =>
       \A k \in 1..Len(mcall.nexts) :
          mcall.nexts[k] =
             IF k <= Len(metadata_.root)
             THEN [error |-> "OK", object |-> Some(metadata_.root[k])]
             ELSE [error |-> "END_OF_ROW", object |-> None]

\* The part of C37 that holds: the first n calls return the objects in
\* stored order and the call after them returns END_OF_ROW.
FirstPassInOrder ==
    FreshCursor =>
       \A k \in 1..Len(mcall.nexts) :
          k <= Len(metadata_.root) + 1 =>
             mcall.nexts[k] =
                IF k <= Len(metadata_.root)
                THEN [error |-> "OK", object |-> Some(metadata_.root[k])]
                ELSE [error |-> "END_OF_ROW", object |-> None]

\* The first pass is reached with a collection of two objects.
FirstPassDone ==
    /\ FreshCursor /\ Len(metadata_.root) = 2 /\ Len(mcall.nexts) = 3
    /\ mcall.error = "END_OF_ROW"

\* The most recent call is an add that got as far as pushing its object.
AddPushed == mcall.op = "add" /\ mcall.saved # "NONE"

\* The file holds the complete text of a tree whose last object is the one
\* the most recent add pushed.
AddedObjectWritten ==
    /\ file.exists /\ WellFormed(file.text)
    /\ read_json(file.text) = metadata_.root

\* C38: Metadata::add returns OK only if the added object, with its new id
\* and the format version, has been written to the metadata file; when the
\* validation or the save fails it returns an error code and the metadata
\* file is as it was before the call.
C38_AddOkMeansWritten ==
    mcall.op = "add" =>
       /\ mcall.error = "OK" => AddedObjectWritten
       /\ mcall.error # "OK" => file = mcall.pre_file
       /\ mcall.saved \notin {"NONE", "OK"} => mcall.error # "OK"

\* The part of C38 that holds: an add whose validation fails returns the
\* error and leaves the file as it was, and an add whose save succeeds
\* returns OK with the object written.
AddWrittenWhenSaveSucceeds ==
    mcall.op = "add" =>
       /\ mcall.error # "OK" => file = mcall.pre_file
       /\ mcall.saved = "OK" => (mcall.error = "OK" /\ AddedObjectWritten)

\* An add whose save succeeded is reached.
AddSaved ==
    /\ AddPushed /\ mcall.saved = "OK" /\ Len(metadata_.root) = 2

(***************************************************************************)
(* Claims about the reads of the StatisticsDAO.                            *)
(***************************************************************************)
\* The statistic most recently stored for a key and not deleted since, as
\* the DAO hands it out.
StoredStatistic(k) == get_column_statistic_from_p_gresult(Val(scall.latest[k]))

\* The ordinal positions of the table for which a statistic is stored.
StoredOrdinals(table_id) ==
    {o \in StatPositions : Has(scall.latest[<<table_id, o>>])}

SelectOneOfMissingKey ==
    /\ scall.op = "select_one" /\ scall.error = "INVALID_PARAMETER"
    /\ RowsOfTable(column_statistics, scall.table_id) # {}
=============================================================================
